---- MODULE Spec2Model ----
(***************************************************************************)
(* A model of the Beancount parser (beancount-parser/src/lib.rs) and       *)
(* renderer (beancount-render/src/lib.rs).                                 *)
(*                                                                         *)
(* Text is modelled as TLA+ strings, character by character.  The PEG      *)
(* grammar (beancount.pest) turns the input text into a tree of pairs; the *)
(* tree constructor walks that tree with a ParseState and builds the       *)
(* ledger; the renderer writes a ledger back to text.                      *)
(***************************************************************************)
EXTENDS Integers, Sequences, FiniteSets, TLC

VARIABLES
    input,      \* the text handed to parse
    pc,         \* position of the running call: "start", "loop", "done", ...
    pairs,      \* the inner pairs of the file pair (top-level elements, EOI last)
    idx,        \* index into pairs of the element the loop looks at next
    state,      \* ParseState: root_names, pushed_tags
    directives, \* Vec<Directive> built so far
    result,     \* the value parse returned: a Ledger or a ParseError
    harness     \* what the caller keeps between calls (first ledger, rendered text)

vars == <<input, pc, pairs, idx, state, directives, result, harness>>

-----------------------------------------------------------------------------
(* Characters and text.                                                    *)

Digits == {"0", "1", "2", "3", "4", "5", "6", "7", "8", "9"}

Upper == {"A", "B", "C", "D", "E", "F", "G", "H", "I", "J", "K", "L", "M",
          "N", "O", "P", "Q", "R", "S", "T", "U", "V", "W", "X", "Y", "Z"}

Lower == {"a", "b", "c", "d", "e", "f", "g", "h", "i", "j", "k", "l", "m",
          "n", "o", "p", "q", "r", "s", "t", "u", "v", "w", "x", "y", "z"}

Alnum == Digits \cup Upper \cup Lower

Blank == {" ", "\t"}

\* The character of s at position i; the empty string past the end.
CharAt(s, i) == IF i >= 1 /\ i <= Len(s) THEN SubSeq(s, i, i) ELSE ""

\* The text of s from b up to, not including, e.
Slice(s, b, e) == IF e > b THEN SubSeq(s, b, e - 1) ELSE ""

\* Does the literal lit stand in s at position i?
LitAt(s, i, lit) == i + Len(lit) - 1 <= Len(s) /\ SubSeq(s, i, i + Len(lit) - 1) = lit

\* The end (exclusive) of the longest run of characters of C that starts at i.
SpanWhile(s, i, C) ==
    CHOOSE e \in i..(Len(s) + 1) :
        CharAt(s, e) \notin C /\ \A k \in i..(e - 1) : CharAt(s, k) \in C

\* The texts of a sequence joined with a separator between them.
RECURSIVE Join(_, _)
Join(q, sep) ==
    IF q = <<>> THEN ""
    ELSE IF Len(q) = 1 THEN q[1]
    ELSE q[1] \o sep \o Join(Tail(q), sep)

Concat(q) == Join(q, "")

\* pest's Position::line_col: 1-based line and column of position i.
LineStart(s, i) ==
    CHOOSE b \in 1..i :
        (b = 1 \/ CharAt(s, b - 1) = "\n") /\ \A k \in b..(i - 1) : CharAt(s, k) # "\n"

line_col(s, i) ==
    <<Cardinality({j \in 1..(i - 1) : CharAt(s, j) = "\n"}) + 1, i - LineStart(s, i) + 1>>

-----------------------------------------------------------------------------
(* Pairs: the parse tree pest hands to the constructor.  A pair has the    *)
(* rule that matched, the text it matched (as_str), the line and column    *)
(* where it starts (as_span().start_pos().line_col()) and its inner pairs. *)

Pair(s, rule, b, e, inner) ==
    [rule |-> rule, str |-> Slice(s, b, e), at |-> line_col(s, b), inner |-> inner]

\* The result of trying a production at a position.
NoMatch == [ok |-> FALSE, pos |-> 0, out |-> <<>>]
Match(pos, out) == [ok |-> TRUE, pos |-> pos, out |-> out]

\* A value bound to a name: v is evaluated, then F is applied to it.
Let(v, F(_)) == CASE v = v -> F(v)

\* The match a followed by the match b: the pairs of both, ending where b ends.
Cat(a, b) == IF b.ok THEN Match(b.pos, a.out \o b.out) ELSE NoMatch

\* The match a followed by the optional match b.
CatOpt(a, b) == IF b.ok THEN Match(b.pos, a.out \o b.out) ELSE a

\* Sequence (~): after the match a, the production R tried where a ends.
AndThen(a, R(_)) == IF a.ok THEN Cat(a, R(a.pos)) ELSE NoMatch

\* Sequence with an optional part (~ R?).
AndOpt(a, R(_)) == IF a.ok THEN CatOpt(a, R(a.pos)) ELSE NoMatch

\* Ordered choice of two (|): a, or b where a does not match.
OrElse(a, b) == IF a.ok THEN a ELSE b

\* Ordered choice: the first of the results that matched.
FirstMatch(ms) ==
    IF \E k \in 1..Len(ms) : ms[k].ok
    THEN ms[CHOOSE k \in 1..Len(ms) : ms[k].ok /\ \A l \in 1..(k - 1) : ~ms[l].ok]
    ELSE NoMatch

\* A match that produced at least one pair.
NonEmpty(m) == IF m.ok /\ m.out # <<>> THEN m ELSE NoMatch

\* The pair of a production that started at i and matched m.
Wrap(s, rule, i, m) ==
    IF m.ok THEN Match(m.pos, <<Pair(s, rule, i, m.pos, m.out)>>) ELSE NoMatch

-----------------------------------------------------------------------------
(* The grammar (beancount.pest), production by production.  Each           *)
(* production is tried at a position of the text and yields the pairs it   *)
(* produces and the position after the match.  Between the parts of a      *)
(* non-atomic production pest skips blanks (WHITESPACE).                   *)

skip(s, i) == SpanWhile(s, i, Blank)

\* eol: optional blanks, an optional comment, then a newline or end of input.
SpanToEol(s, i) ==
    CHOOSE e \in i..(Len(s) + 1) :
        CharAt(s, e) \in {"\n", ""} /\ \A k \in i..(e - 1) : CharAt(s, k) # "\n"

EolAt(s, k) ==
    IF CharAt(s, k) = "\n" THEN Match(k + 1, <<>>)
    ELSE IF CharAt(s, k) = "" THEN Match(k, <<>>)
    ELSE NoMatch

rule_eol(s, i) ==
    LET j == skip(s, i)
    IN  EolAt(s, IF CharAt(s, j) = ";" THEN SpanToEol(s, j) ELSE j)

\* quoted_str = ${ "\"" ~ inner_quoted_str ~ "\"" }; a backslash escapes the
\* character after it.  RunStart is the start of the backslashes that end
\* just before k; a quote after an even number of them closes the string.
RunStart(s, i, k) ==
    CHOOSE b \in i..k :
        (b = i \/ CharAt(s, b - 1) # "\\") /\ \A m \in b..(k - 1) : CharAt(s, m) = "\\"

Closing(s, i) ==
    {j \in i..Len(s) : CharAt(s, j) = "\"" /\ (j - RunStart(s, i, j)) % 2 = 0}

SpanQuoted(s, i) ==
    IF Closing(s, i) = {} THEN 0
    ELSE CHOOSE j \in Closing(s, i) : \A k \in Closing(s, i) : j <= k

rule_quoted_str(s, i) ==
    IF CharAt(s, i) # "\"" THEN NoMatch
    ELSE LET j == SpanQuoted(s, i + 1)
         IN  IF j = 0 THEN NoMatch
             ELSE Match(j + 1, <<Pair(s, "quoted_str", i, j + 1,
                                      <<Pair(s, "inner_quoted_str", i + 1, j, <<>>)>>)>>)

\* date = @{ year ~ sep ~ month ~ sep ~ day }, month 01-12, day 01-31.
TwoDigits(s, i) == CharAt(s, i) \in Digits /\ CharAt(s, i + 1) \in Digits

rule_date(s, i) ==
    IF /\ i + 9 <= Len(s)
       /\ SpanWhile(s, i, Digits) = i + 4
       /\ CharAt(s, i + 4) \in {"-", "/"}
       /\ TwoDigits(s, i + 5)
       /\ CharAt(s, i + 7) \in {"-", "/"}
       /\ TwoDigits(s, i + 8)
       /\ Slice(s, i + 5, i + 7)
            \in {"01", "02", "03", "04", "05", "06", "07", "08", "09", "10", "11", "12"}
       /\ Slice(s, i + 8, i + 10) # "00" /\ CharAt(s, i + 8) \in {"0", "1", "2", "3"}
       /\ (CharAt(s, i + 8) = "3" => CharAt(s, i + 9) \in {"0", "1"})
    THEN Match(i + 10, <<Pair(s, "date", i, i + 10, <<>>)>>)
    ELSE NoMatch

\* account = @{ account_type ~ (":" ~ account_name_piece)+ }.  The pieces
\* after the first are pairs whose text starts with the colon.
PieceEnd(s, i) == SpanWhile(s, i + 1, Alnum \cup {"-"})

RECURSIVE AccountPieces(_, _)
AccountPieces(s, m) ==
    IF CharAt(s, m.pos) = ":" /\ CharAt(s, m.pos + 1) \in (Upper \cup Digits)
    THEN AccountPieces(s, Match(PieceEnd(s, m.pos),
                                m.out \o <<Pair(s, "account_name_piece", m.pos,
                                                PieceEnd(s, m.pos), <<>>)>>))
    ELSE m

AccountStart(s, i) ==
    LET e == SpanWhile(s, i, Alnum \cup {"-"})
    IN  Match(e, <<Pair(s, "account_type", i, e, <<>>)>>)

WithPieces(m) == IF Len(m.out) > 1 THEN m ELSE NoMatch

rule_account(s, i) ==
    IF CharAt(s, i) \notin Upper THEN NoMatch
    ELSE Wrap(s, "account", i, WithPieces(AccountPieces(s, AccountStart(s, i))))

\* commodity = @{ upper ~ [A-Z0-9'._-]{0,22} ~ [A-Z0-9] | upper }, at most
\* 24 characters, the last one a letter or a digit.
CommodityChars == Upper \cup Digits \cup {"'", ".", "_", "-"}

RECURSIVE CommodityEnd(_, _, _)
CommodityEnd(s, i, e) ==
    IF e <= i + 1 THEN i + 1
    ELSE IF CharAt(s, e - 1) \in (Upper \cup Digits) THEN e
    ELSE CommodityEnd(s, i, e - 1)

MaxCommodityLen == 24

rule_commodity(s, i) ==
    IF CharAt(s, i) \notin Upper THEN NoMatch
    ELSE LET run == SpanWhile(s, i + 1, CommodityChars)
             e == CommodityEnd(s, i, IF run > i + MaxCommodityLen
                                     THEN i + MaxCommodityLen ELSE run)
         IN  Match(e, <<Pair(s, "commodity", i, e, <<>>)>>)

\* tag = @{ "#" ~ tag_name }, link = @{ "^" ~ tag_name }.
TagChars == Alnum \cup {"-", ".", "/", "_"}

rule_tag_or_link(s, i) ==
    IF CharAt(s, i) \in {"#", "^"} /\ CharAt(s, i + 1) \in TagChars
    THEN LET e == SpanWhile(s, i + 1, TagChars)
         IN  Match(e, <<Pair(s, IF CharAt(s, i) = "#" THEN "tag" ELSE "link", i, e, <<>>)>>)
    ELSE NoMatch

rule_tag(s, i) ==
    IF CharAt(s, i) = "#" THEN rule_tag_or_link(s, i) ELSE NoMatch

\* tags_links = { (tag | link)+ }: the items after the match m.
RECURSIVE TagsLinksItems(_, _), TagsLinksMore(_, _, _)
TagsLinksItems(s, m) == TagsLinksMore(s, m, rule_tag_or_link(s, skip(s, m.pos)))

TagsLinksMore(s, m, t) == IF t.ok THEN TagsLinksItems(s, Cat(m, t)) ELSE m

rule_tags_links(s, i) ==
    Wrap(s, "tags_links", skip(s, i), NonEmpty(TagsLinksItems(s, Match(i, <<>>))))

\* num = @{ int ~ ("," ~ digit{3})* ~ ("." ~ digit*)? }
RECURSIVE SpanGroups(_, _)
SpanGroups(s, i) ==
    IF CharAt(s, i) = "," /\ SpanWhile(s, i + 1, Digits) >= i + 4
    THEN SpanGroups(s, i + 4)
    ELSE i

rule_num(s, i) ==
    IF CharAt(s, i) \notin Digits THEN NoMatch
    ELSE LET a == SpanGroups(s, SpanWhile(s, i, Digits))
             e == IF CharAt(s, a) = "." THEN SpanWhile(s, a + 1, Digits) ELSE a
         IN  Match(e, <<Pair(s, "num", i, e, <<>>)>>)

\* num_expr = { prefix* ~ primary ~ (infix ~ prefix* ~ primary)* } with
\* prefix = neg | pos, primary = num | "(" ~ num_expr ~ ")" and
\* infix = add | subtract | multiply | divide.
PrefixRule(c) == IF c = "-" THEN "neg" ELSE "pos"

InfixRule(c) ==
    IF c = "+" THEN "add" ELSE IF c = "-" THEN "subtract"
    ELSE IF c = "*" THEN "multiply" ELSE "divide"

\* The one-character pair of an operator at j.
OpPair(s, j, rule) == Match(j + 1, <<Pair(s, rule, j, j + 1, <<>>)>>)

\* The closing parenthesis after the match m.
Closed(s, m) ==
    IF m.ok /\ CharAt(s, skip(s, m.pos)) = ")" THEN Match(skip(s, m.pos) + 1, m.out)
    ELSE NoMatch

RECURSIVE rule_num_expr(_, _), NumOperand(_, _), NumOperandAt(_, _), NumTail(_, _),
          NumTailMore(_, _, _)

\* prefix* ~ primary
NumOperand(s, i) == NumOperandAt(s, skip(s, i))

NumOperandAt(s, j) ==
    IF CharAt(s, j) \in {"-", "+"}
    THEN Cat(OpPair(s, j, PrefixRule(CharAt(s, j))), NumOperand(s, j + 1))
    ELSE IF CharAt(s, j) = "(" THEN Closed(s, rule_num_expr(s, j + 1))
    ELSE rule_num(s, j)

\* (infix ~ prefix* ~ primary)* after the match m
NumTail(s, m) ==
    LET j == skip(s, m.pos)
    IN  IF CharAt(s, j) \in {"+", "-", "*", "/"}
        THEN NumTailMore(s, m, Cat(OpPair(s, j, InfixRule(CharAt(s, j))),
                                   NumOperand(s, j + 1)))
        ELSE m

NumTailMore(s, m, t) == IF t.ok THEN NumTail(s, Cat(m, t)) ELSE m

NumAfterOperand(s, m) == IF m.ok THEN NumTail(s, m) ELSE NoMatch

rule_num_expr(s, i) ==
    Wrap(s, "num_expr", skip(s, i), NumAfterOperand(s, NumOperand(s, i)))

\* amount = { num_expr ~ commodity }
rule_amount(s, i) ==
    Wrap(s, "amount", skip(s, i),
         AndThen(rule_num_expr(s, i), LAMBDA p : rule_commodity(s, skip(s, p))))

\* incomplete_amount = { num_expr ~ commodity | num_expr | commodity }
rule_incomplete_amount(s, i) ==
    Wrap(s, "incomplete_amount", skip(s, i),
         OrElse(AndOpt(rule_num_expr(s, i), LAMBDA p : rule_commodity(s, skip(s, p))),
                rule_commodity(s, skip(s, i))))

\* bool = { ^"true" | ^"false" }
BoolWords == {"TRUE", "True", "true", "FALSE", "False", "false"}

rule_bool(s, i) ==
    LET e == SpanWhile(s, i, Upper \cup Lower)
    IN  IF Slice(s, i, e) \in BoolWords
        THEN Match(e, <<Pair(s, "bool", i, e, <<>>)>>)
        ELSE NoMatch

\* value = { quoted_str | account | date | bool | commodity | tag | amount | num_expr }
rule_value(s, i) ==
    Wrap(s, "value", i,
         FirstMatch(<<rule_quoted_str(s, i), rule_account(s, i), rule_date(s, i),
                      rule_bool(s, i), rule_commodity(s, i), rule_tag(s, i),
                      rule_amount(s, i), rule_num_expr(s, i)>>))

\* key_value = ${ key ~ ":" ~ blank* ~ value }, key = @{ lower ~ (alnum | "-" | "_")+ }
rule_key_value(s, i) ==
    LET e == SpanWhile(s, i + 1, Alnum \cup {"-", "_"})
    IN  IF CharAt(s, i) \in Lower /\ e >= i + 2 /\ CharAt(s, e) = ":"
        THEN Wrap(s, "key_value", i,
                  Cat(Match(e, <<Pair(s, "key", i, e, <<>>)>>),
                      rule_value(s, skip(s, e + 1))))
        ELSE NoMatch

\* eol_kv_list = { eol ~ (indent ~ key_value ~ eol)* }: the lines after the
\* match m.
KvLine(s, i) ==
    IF skip(s, i) > i
    THEN AndThen(rule_key_value(s, skip(s, i)), LAMBDA p : rule_eol(s, p))
    ELSE NoMatch

RECURSIVE KvLines(_, _), KvMore(_, _, _)
KvLines(s, m) == KvMore(s, m, KvLine(s, m.pos))

KvMore(s, m, l) == IF l.ok THEN KvLines(s, Cat(m, l)) ELSE m

KvAfterEol(s, e) == IF e.ok THEN KvLines(s, e) ELSE NoMatch

rule_eol_kv_list(s, i) == Wrap(s, "eol_kv_list", i, KvAfterEol(s, rule_eol(s, i)))

\* txn_flag = { "*" | "!" | "txn" | "P" | "S" | "T" | "C" | "U" | "R" | "M" | "#" }
FlagChars == {"*", "!", "P", "S", "T", "C", "U", "R", "M", "#"}

rule_txn_flag(s, i) ==
    IF LitAt(s, i, "txn") THEN Match(i + 3, <<Pair(s, "txn_flag", i, i + 3, <<>>)>>)
    ELSE IF CharAt(s, i) \in FlagChars THEN Match(i + 1, <<Pair(s, "txn_flag", i, i + 1, <<>>)>>)
    ELSE NoMatch

\* price_annotation = { price_annotation_total | price_annotation_unit }
\* price_annotation_total = { "@@" ~ incomplete_amount }
\* price_annotation_unit = { "@" ~ incomplete_amount }
PriceRule(s, i) ==
    IF LitAt(s, i, "@@") THEN "price_annotation_total" ELSE "price_annotation_unit"

rule_price_annotation(s, i) ==
    IF CharAt(s, i) # "@" THEN NoMatch
    ELSE Wrap(s, "price_annotation", i,
              Wrap(s, PriceRule(s, i), i,
                   rule_incomplete_amount(s, IF LitAt(s, i, "@@") THEN i + 2 ELSE i + 1)))

\* compound_amount = { num_expr? ~ "#" ~ num_expr? ~ commodity
\*                   | num_expr ~ commodity | num_expr | commodity }
\* n1 is the optional first number.
CompoundAfterHash(s, n1) ==
    IF CharAt(s, skip(s, n1.pos)) = "#"
    THEN AndThen(AndOpt(Match(skip(s, n1.pos) + 1, n1.out),
                        LAMBDA p : rule_num_expr(s, p)),
                 LAMBDA p : rule_commodity(s, skip(s, p)))
    ELSE NoMatch

CompoundOf(s, n1) ==
    NonEmpty(OrElse(CompoundAfterHash(s, n1),
                    CatOpt(n1, rule_commodity(s, skip(s, n1.pos)))))

rule_compound_amount(s, i) ==
    Wrap(s, "compound_amount", skip(s, i),
         CompoundOf(s, CatOpt(Match(skip(s, i), <<>>), rule_num_expr(s, i))))

\* cost_comp = _{ date | quoted_str | asterisk | compound_amount }
rule_asterisk(s, i) ==
    IF CharAt(s, i) = "*" THEN Match(i + 1, <<Pair(s, "asterisk", i, i + 1, <<>>)>>)
    ELSE NoMatch

rule_cost_comp(s, i) ==
    LET b == skip(s, i)
    IN  FirstMatch(<<rule_date(s, b), rule_quoted_str(s, b), rule_asterisk(s, b),
                     rule_compound_amount(s, b)>>)

\* cost_comp_list = _{ cost_comp ~ ("," ~ cost_comp)* }
CostCompNext(s, i) ==
    IF CharAt(s, skip(s, i)) = "," THEN rule_cost_comp(s, skip(s, i) + 1) ELSE NoMatch

RECURSIVE CostCompTail(_, _), CostCompMore(_, _, _)
CostCompTail(s, m) == CostCompMore(s, m, CostCompNext(s, m.pos))

CostCompMore(s, m, t) == IF t.ok THEN CostCompTail(s, Cat(m, t)) ELSE m

CostCompFirst(s, i, m) == IF m.ok THEN CostCompTail(s, m) ELSE Match(i, <<>>)

rule_cost_comp_list(s, i) == CostCompFirst(s, i, rule_cost_comp(s, i))

\* cost_spec = { cost_spec_total | cost_spec_unit }
\* cost_spec_total = { "{{" ~ cost_comp_list? ~ "}}" }
\* cost_spec_unit = { "{" ~ cost_comp_list? ~ "}" }
CostRule(s, i) == IF LitAt(s, i, "{{") THEN "cost_spec_total" ELSE "cost_spec_unit"

CostClose(s, i) == IF LitAt(s, i, "{{") THEN "}}" ELSE "}"

\* The closing braces after the components l of the cost that opened at i.
CostClosed(s, i, l) ==
    LET c == skip(s, l.pos)
    IN  IF LitAt(s, c, CostClose(s, i))
        THEN Match(c + Len(CostClose(s, i)), l.out)
        ELSE NoMatch

rule_cost_spec(s, i) ==
    IF CharAt(s, i) # "{" THEN NoMatch
    ELSE Wrap(s, "cost_spec", i,
              Wrap(s, CostRule(s, i), i,
                   CostClosed(s, i, rule_cost_comp_list(s, i + Len(CostClose(s, i))))))

\* posting = { (txn_flag ~ blank+)? ~ account ~ incomplete_amount? ~ cost_spec?
\*             ~ price_annotation? }
FlagBlank(s, i, f) ==
    IF f.ok /\ CharAt(s, f.pos) \in Blank THEN Match(skip(s, f.pos), f.out)
    ELSE Match(i, <<>>)

PostingFlag(s, i) == FlagBlank(s, i, rule_txn_flag(s, i))

rule_posting(s, i) ==
    Wrap(s, "posting", i,
         AndOpt(AndOpt(AndOpt(AndThen(PostingFlag(s, i),
                                      LAMBDA p : rule_account(s, p)),
                              LAMBDA p : rule_incomplete_amount(s, p)),
                       LAMBDA p : rule_cost_spec(s, skip(s, p))),
                LAMBDA p : rule_price_annotation(s, skip(s, p))))

\* eol_posting_or_kv_list = { eol ~ (indent ~ (key_value | posting | tag | link) ~ eol)* }
\* An indented line that holds only a comment is skipped.
BodyLine(s, i, j) ==
    IF j = i THEN NoMatch
    ELSE IF CharAt(s, j) = ";" THEN Match(j, <<>>)
    ELSE FirstMatch(<<rule_key_value(s, j), rule_posting(s, j), rule_tag_or_link(s, j)>>)

BodyLineEol(s, i) == AndThen(BodyLine(s, i, skip(s, i)), LAMBDA p : rule_eol(s, p))

\* The lines after the match m.
RECURSIVE BodyLines(_, _), BodyMore(_, _, _)
BodyLines(s, m) == BodyMore(s, m, BodyLineEol(s, m.pos))

BodyMore(s, m, l) == IF l.ok THEN BodyLines(s, Cat(m, l)) ELSE m

BodyAfterEol(s, e) == IF e.ok THEN BodyLines(s, e) ELSE NoMatch

rule_eol_posting_or_kv_list(s, i) ==
    Wrap(s, "eol_posting_or_kv_list", i, BodyAfterEol(s, rule_eol(s, i)))

\* txn_strings = { quoted_str ~ ("|"? ~ quoted_str)? }
AfterBar(s, j) == IF CharAt(s, j) = "|" THEN skip(s, j + 1) ELSE j

rule_txn_strings(s, i) ==
    Wrap(s, "txn_strings", i,
         AndOpt(rule_quoted_str(s, i),
                LAMBDA p : rule_quoted_str(s, AfterBar(s, skip(s, p)))))

\* A keyword: the literal, not followed by a letter or a digit.
Keyword(s, i, kw) == LitAt(s, i, kw) /\ CharAt(s, i + Len(kw)) \notin Alnum

rule_keyword(s, i, kw) == IF Keyword(s, i, kw) THEN Match(i + Len(kw), <<>>) ELSE NoMatch

\* pushtag = { "pushtag" ~ tag ~ eol }, poptag = { "poptag" ~ tag ~ eol }
rule_pushtag_or_poptag(s, i, kw) ==
    Wrap(s, kw, i,
         AndThen(AndThen(rule_keyword(s, i, kw),
                         LAMBDA p : rule_tag(s, skip(s, p))),
                 LAMBDA p : rule_eol(s, p)))

\* option = { "option" ~ quoted_str ~ quoted_str ~ eol }
rule_option(s, i) ==
    Wrap(s, "option", i,
         AndThen(AndThen(AndThen(rule_keyword(s, i, "option"),
                                 LAMBDA p : rule_quoted_str(s, skip(s, p))),
                         LAMBDA p : rule_quoted_str(s, skip(s, p))),
                 LAMBDA p : rule_eol(s, p)))

\* include = { "include" ~ quoted_str ~ eol }
rule_include(s, i) ==
    Wrap(s, "include", i,
         AndThen(AndThen(rule_keyword(s, i, "include"),
                         LAMBDA p : rule_quoted_str(s, skip(s, p))),
                 LAMBDA p : rule_eol(s, p)))

\* close = { date ~ "close" ~ account ~ eol_kv_list }
rule_close(s, i) ==
    Wrap(s, "close", i,
         AndThen(AndThen(AndThen(rule_date(s, i),
                                 LAMBDA p : rule_keyword(s, skip(s, p), "close")),
                         LAMBDA p : rule_account(s, skip(s, p))),
                 LAMBDA p : rule_eol_kv_list(s, p)))

\* commodity_list = { commodity ~ ("," ~ commodity)* }
CommodityNext(s, i) ==
    IF CharAt(s, skip(s, i)) = "," THEN rule_commodity(s, skip(s, skip(s, i) + 1))
    ELSE NoMatch

RECURSIVE CommodityTail(_, _), CommodityMore(_, _, _)
CommodityTail(s, m) == CommodityMore(s, m, CommodityNext(s, m.pos))

CommodityMore(s, m, t) == IF t.ok THEN CommodityTail(s, Cat(m, t)) ELSE m

CommodityFirst(s, m) == IF m.ok THEN CommodityTail(s, m) ELSE NoMatch

rule_commodity_list(s, i) ==
    Wrap(s, "commodity_list", i, CommodityFirst(s, rule_commodity(s, i)))

\* open = { date ~ "open" ~ account ~ commodity_list? ~ quoted_str? ~ eol_kv_list }
rule_open(s, i) ==
    Wrap(s, "open", i,
         AndThen(AndOpt(AndOpt(AndThen(AndThen(rule_date(s, i),
                                               LAMBDA p : rule_keyword(s, skip(s, p), "open")),
                                       LAMBDA p : rule_account(s, skip(s, p))),
                               LAMBDA p : rule_commodity_list(s, skip(s, p))),
                        LAMBDA p : rule_quoted_str(s, skip(s, p))),
                 LAMBDA p : rule_eol_kv_list(s, p)))

\* pad = { date ~ "pad" ~ account ~ account ~ eol_kv_list }
rule_pad(s, i) ==
    Wrap(s, "pad", i,
         AndThen(AndThen(AndThen(AndThen(rule_date(s, i),
                                         LAMBDA p : rule_keyword(s, skip(s, p), "pad")),
                                 LAMBDA p : rule_account(s, skip(s, p))),
                         LAMBDA p : rule_account(s, skip(s, p))),
                 LAMBDA p : rule_eol_kv_list(s, p)))

\* custom_value = { quoted_str | date | bool | amount | num_expr | account }
rule_custom_value(s, i) ==
    Wrap(s, "custom_value", i,
         FirstMatch(<<rule_quoted_str(s, i), rule_date(s, i), rule_bool(s, i),
                      rule_amount(s, i), rule_num_expr(s, i), rule_account(s, i)>>))

\* custom_value_list = { custom_value+ }
CustomNext(s, i) == IF skip(s, i) > i THEN rule_custom_value(s, skip(s, i)) ELSE NoMatch

RECURSIVE CustomTail(_, _), CustomMore(_, _, _)
CustomTail(s, m) == CustomMore(s, m, CustomNext(s, m.pos))

CustomMore(s, m, t) == IF t.ok THEN CustomTail(s, Cat(m, t)) ELSE m

CustomFirst(s, m) == IF m.ok THEN CustomTail(s, m) ELSE NoMatch

rule_custom_value_list(s, i) ==
    Wrap(s, "custom_value_list", i, CustomFirst(s, rule_custom_value(s, i)))

\* custom = { date ~ "custom" ~ quoted_str ~ custom_value_list? ~ eol_kv_list }
rule_custom(s, i) ==
    Wrap(s, "custom", i,
         AndThen(AndOpt(AndThen(AndThen(rule_date(s, i),
                                        LAMBDA p : rule_keyword(s, skip(s, p), "custom")),
                                LAMBDA p : rule_quoted_str(s, skip(s, p))),
                        LAMBDA p : rule_custom_value_list(s, skip(s, p))),
                 LAMBDA p : rule_eol_kv_list(s, p)))

\* transaction = { date ~ txn_flag ~ txn_strings ~ tags_links? ~ eol_posting_or_kv_list }
rule_transaction(s, i) ==
    Wrap(s, "transaction", i,
         AndThen(AndOpt(AndThen(AndThen(rule_date(s, i),
                                        LAMBDA p : rule_txn_flag(s, skip(s, p))),
                                LAMBDA p : rule_txn_strings(s, skip(s, p))),
                        LAMBDA p : rule_tags_links(s, p)),
                 LAMBDA p : rule_eol_posting_or_kv_list(s, p)))

\* file = { SOI ~ (empty line | directive | pushtag | poptag)* ~ EOI }
rule_top(s, i) ==
    FirstMatch(<<rule_eol(s, i),
                 rule_pushtag_or_poptag(s, i, "pushtag"), rule_pushtag_or_poptag(s, i, "poptag"),
                 rule_option(s, i), rule_include(s, i), rule_open(s, i), rule_close(s, i),
                 rule_pad(s, i), rule_custom(s, i), rule_transaction(s, i)>>)

\* The items of the file from position i after the pairs acc, then EOI.
\* Where no item matches, ok is FALSE and pos is the position of the failure.
RECURSIVE FileItems(_, _, _), FileStep(_, _, _, _)
FileItems(s, i, acc) ==
    IF i > Len(s) THEN Match(i, acc \o <<Pair(s, "EOI", i, i, <<>>)>>)
    ELSE FileStep(s, i, acc, rule_top(s, i))

FileStep(s, i, acc, m) ==
    IF m.ok THEN FileItems(s, m.pos, acc \o m.out)
    ELSE [ok |-> FALSE, pos |-> i, out |-> <<>>]

\* BeancountParser::parse(Rule::file, input): the file pair, or a pest error.
FileOutcome(s, m) ==
    IF m.ok THEN [ok |-> TRUE, pair |-> Pair(s, "file", 1, m.pos, m.out)]
    ELSE [ok |-> FALSE, at |-> line_col(s, m.pos)]

BeancountParser_parse(s) == FileOutcome(s, FileItems(s, 1, <<>>))

-----------------------------------------------------------------------------
\* Results, options and errors.
\* Option<T>: None is <<>>, Some(x) is <<x>>.

None == <<>>
Some(x) == <<x>>

Ok(v) == [ok |-> TRUE, val |-> v]
Err(e) == [ok |-> FALSE, err |-> e]

\* The ? operator: F applied to the value of r, or the error of r.
Try(r, F(_)) == IF r.ok THEN F(r.val) ELSE r

\* A panic unwinds out of parse; it is recorded as an outcome of its own kind.
Panic(msg) == Err([kind |-> "panic", message |-> msg, location |-> <<0, 0>>])

ParseError_invalid_state(msg) ==
    [kind |-> "InvalidParserState", message |-> msg, location |-> <<0, 0>>]

ParseError_invalid_state_with_span(msg, span) ==
    [kind |-> "InvalidParserState", message |-> msg, location |-> span.at]

ParseError_invalid_input_with_span(msg, span) ==
    [kind |-> "InvalidInput", message |-> msg, location |-> span.at]

\* From<pest::error::Error<Rule>>: InvalidInput located at the pest error.
ParseError_from_pest(msg, at) ==
    [kind |-> "InvalidInput", message |-> msg, location |-> at]

-----------------------------------------------------------------------------
\* rust_decimal::Decimal: mantissa m and scale e, value m / 10^e.

Decimal(m, e) == [m |-> m, e |-> e]

RECURSIVE Pow10(_)
Pow10(k) == IF k <= 0 THEN 1 ELSE 10 * Pow10(k - 1)

DigitVal(c) ==
    CASE c = "0" -> 0 [] c = "1" -> 1 [] c = "2" -> 2 [] c = "3" -> 3 [] c = "4" -> 4
      [] c = "5" -> 5 [] c = "6" -> 6 [] c = "7" -> 7 [] c = "8" -> 8 [] c = "9" -> 9

RECURSIVE StrToNat(_)
StrToNat(s) ==
    IF Len(s) = 0 THEN 0
    ELSE 10 * StrToNat(SubSeq(s, 1, Len(s) - 1)) + DigitVal(CharAt(s, Len(s)))

RECURSIVE StripCommas(_)
StripCommas(s) ==
    IF Len(s) = 0 THEN ""
    ELSE IF CharAt(s, 1) = "," THEN StripCommas(Tail(s))
    ELSE CharAt(s, 1) \o StripCommas(Tail(s))

RECURSIVE IndexOf(_, _, _)
IndexOf(s, c, i) ==
    IF i > Len(s) THEN 0 ELSE IF CharAt(s, i) = c THEN i ELSE IndexOf(s, c, i + 1)

\* Decimal::from_str on an unsigned digit string with an optional fraction:
\* the scale is the number of fractional digits written.
Decimal_from_str(s) ==
    LET dot == IndexOf(s, ".", 1)
        ip == IF dot = 0 THEN s ELSE SubSeq(s, 1, dot - 1)
        fp == IF dot = 0 THEN "" ELSE SubSeq(s, dot + 1, Len(s))
    IN Decimal(StrToNat(ip \o fp), Len(fp))

Max(a, b) == IF a >= b THEN a ELSE b

Rescale(a, e) == a.m * Pow10(e - a.e)

Decimal_add(a, b) ==
    LET e == Max(a.e, b.e) IN Decimal(Rescale(a, e) + Rescale(b, e), e)

Decimal_sub(a, b) ==
    LET e == Max(a.e, b.e) IN Decimal(Rescale(a, e) - Rescale(b, e), e)

Decimal_mul(a, b) == Decimal(a.m * b.m, a.e + b.e)

\* set_sign_positive(!is_sign_positive())
Decimal_neg(a) == Decimal(0 - a.m, a.e)

\* Fractional digits a quotient may add to the scale of its dividend.
QuotientDigits == 3

\* Division: the quotient at the smallest scale, at least the difference of
\* the scales, at which it is exact; a quotient that is not exact within
\* QuotientDigits more digits is cut there (rust_decimal rounds at 28).
\* The divisor is not zero.
Decimal_div(a, b) ==
    LET lo == Max(a.e - b.e, 0)
        bm == IF b.m > 0 THEN b.m ELSE 0 - b.m
        am == IF a.m >= 0 THEN a.m ELSE 0 - a.m
        num(k) == am * Pow10(k + b.e - a.e)
        exact == {k \in lo..(lo + QuotientDigits) : num(k) % bm = 0}
        k == IF exact = {} THEN lo + QuotientDigits
             ELSE CHOOSE x \in exact : \A y \in exact : x <= y
        q == num(k) \div bm
    IN Decimal(IF (a.m >= 0) = (b.m > 0) THEN q ELSE 0 - q, k)

\* PartialEq for Decimal compares values, not scales.
Decimal_eq(a, b) ==
    LET e == Max(a.e, b.e) IN Rescale(a, e) = Rescale(b, e)

RECURSIVE Zeros(_)
Zeros(k) == IF k <= 0 THEN "" ELSE "0" \o Zeros(k - 1)

\* Display for Decimal: every digit of the scale is printed.
Decimal_to_string(a) ==
    LET abs == IF a.m < 0 THEN 0 - a.m ELSE a.m
        ds == ToString(abs)
        padded == IF Len(ds) <= a.e THEN Zeros(a.e + 1 - Len(ds)) \o ds ELSE ds
        n == Len(padded)
    IN (IF a.m < 0 THEN "-" ELSE "")
       \o (IF a.e = 0 THEN padded
           ELSE SubSeq(padded, 1, n - a.e) \o "." \o SubSeq(padded, n - a.e + 1, n))

-----------------------------------------------------------------------------
\* Numbers and numeric expressions.

IsPanic(r) == ~r.ok /\ r.err.kind = "panic"

\* num: commas removed, then Decimal::from_str. The grammar admits only digit
\* groups with an optional fraction, which from_str accepts.
num(pair) == Ok(Decimal_from_str(StripCommas(pair.str)))

\* Precedences that put every infix operator on one level.
Prec_flat(rule) ==
    CASE rule \in {"add", "subtract", "multiply", "divide"} -> 10
      [] rule \in {"neg", "pos"} -> 30
      [] OTHER -> 0

\* PRATT_PARSER: one precedence level per .op() call, in the order written.
Prec(rule) ==
    CASE rule \in {"add", "subtract"} -> 10
      [] rule \in {"multiply", "divide"} -> 20
      [] rule \in {"neg", "pos"} -> 30
      [] OTHER -> 0

map_prefix(op, rhs) ==
    IF ~rhs.ok THEN rhs
    ELSE IF op.rule = "neg" THEN Ok(Decimal_neg(rhs.val))
    ELSE rhs

map_infix(lhs, op, rhs) ==
    IF IsPanic(lhs) THEN lhs
    ELSE IF IsPanic(rhs) THEN rhs
    ELSE IF ~lhs.ok THEN lhs
    ELSE IF ~rhs.ok THEN rhs
    ELSE CASE op.rule = "add" -> Ok(Decimal_add(lhs.val, rhs.val))
           [] op.rule = "subtract" -> Ok(Decimal_sub(lhs.val, rhs.val))
           [] op.rule = "multiply" -> Ok(Decimal_mul(lhs.val, rhs.val))
           [] op.rule = "divide" ->
                IF rhs.val.m = 0 THEN Panic("Division by zero")
                ELSE Ok(Decimal_div(lhs.val, rhs.val))

\* PrattParser::parse over the inner pairs of a num_expr pair: expr(rbp) reads
\* a prefix or primary (nud), then folds infix operators binding tighter than
\* rbp (led); a left-associative operator parses its right side at its own
\* precedence, a prefix operator at its precedence minus one.
RECURSIVE num_expr(_), Pratt_expr(_, _, _), Pratt_nud(_, _), Pratt_led(_, _, _)
num_expr(pair) == Pratt_expr(pair.inner, 1, 0).res

Pratt_nud(toks, i) ==
    IF toks[i].rule \in {"neg", "pos"}
    THEN Let(Pratt_expr(toks, i + 1, Prec(toks[i].rule) - 1), LAMBDA r :
             [res |-> map_prefix(toks[i], r.res), pos |-> r.pos])
    ELSE IF toks[i].rule = "num" THEN [res |-> num(toks[i]), pos |-> i + 1]
    ELSE [res |-> num_expr(toks[i]), pos |-> i + 1]

Pratt_led(toks, lhs, rbp) ==
    IF lhs.pos <= Len(toks) /\ rbp < Prec(toks[lhs.pos].rule)
    THEN Let(Pratt_expr(toks, lhs.pos + 1, Prec(toks[lhs.pos].rule)), LAMBDA rhs :
             Pratt_led(toks, [res |-> map_infix(lhs.res, toks[lhs.pos], rhs.res),
                              pos |-> rhs.pos], rbp))
    ELSE lhs

Pratt_expr(toks, i, rbp) == Pratt_led(toks, Pratt_nud(toks, i), rbp)

\* The standard mathematical reading of the text of an expression, by
\* stratified descent: a sum of terms, a term a product of factors, a factor
\* a signed factor, a parenthesized sum or a number; sums and products fold
\* from the left. A quotient by zero has no value.
StdUndefined == [ok |-> FALSE, val |-> Decimal(0, 0)]

StdOp(c, a, b) ==
    IF ~a.ok \/ ~b.ok THEN StdUndefined
    ELSE CASE c = "+" -> Ok(Decimal_add(a.val, b.val))
           [] c = "-" -> Ok(Decimal_sub(a.val, b.val))
           [] c = "*" -> Ok(Decimal_mul(a.val, b.val))
           [] c = "/" -> IF b.val.m = 0 THEN StdUndefined ELSE Ok(Decimal_div(a.val, b.val))

StdNeg(r) == IF r.ok THEN Ok(Decimal_neg(r.val)) ELSE r

StdNumber(s, j, k) == [res |-> Ok(Decimal_from_str(StripCommas(Slice(s, j, k)))), pos |-> k]

RECURSIVE StdSum(_, _), StdSumTail(_, _, _), StdTerm(_, _), StdTermTail(_, _, _), StdFactor(_, _)
StdFactor(s, j) ==
    IF CharAt(s, j) \in Blank THEN StdFactor(s, j + 1)
    ELSE IF CharAt(s, j) = "-"
    THEN Let(StdFactor(s, j + 1), LAMBDA f : [res |-> StdNeg(f.res), pos |-> f.pos])
    ELSE IF CharAt(s, j) = "+" THEN StdFactor(s, j + 1)
    ELSE IF CharAt(s, j) = "("
    THEN Let(StdSum(s, j + 1), LAMBDA e : [res |-> e.res, pos |-> skip(s, e.pos) + 1])
    ELSE StdNumber(s, j, SpanWhile(s, j, Digits \cup {",", "."}))

StdTermTail(s, acc, j) ==
    IF CharAt(s, j) \in {"*", "/"}
    THEN Let(StdFactor(s, j + 1), LAMBDA f :
             StdTermTail(s, [res |-> StdOp(CharAt(s, j), acc.res, f.res), pos |-> f.pos],
                         skip(s, f.pos)))
    ELSE acc

StdTerm(s, i) == Let(StdFactor(s, i), LAMBDA f : StdTermTail(s, f, skip(s, f.pos)))

StdSumTail(s, acc, j) ==
    IF CharAt(s, j) \in {"+", "-"}
    THEN Let(StdTerm(s, j + 1), LAMBDA t :
             StdSumTail(s, [res |-> StdOp(CharAt(s, j), acc.res, t.res), pos |-> t.pos],
                        skip(s, t.pos)))
    ELSE acc

StdSum(s, i) == Let(StdTerm(s, i), LAMBDA t : StdSumTail(s, t, skip(s, t.pos)))

StdValue(s) == StdSum(s, 1).res

-----------------------------------------------------------------------------
\* beancount-core values.

AccountTypes == <<"Assets", "Liabilities", "Equity", "Income", "Expenses">>

default_name(ty) ==
    CASE ty = "Assets" -> "Assets"
      [] ty = "Liabilities" -> "Liabilities"
      [] ty = "Equity" -> "Equity"
      [] ty = "Income" -> "Income"
      [] ty = "Expenses" -> "Expenses"

\* Flag::from
\* A conversion that knows the star only.
Flag_from_star(s) ==
    IF s = "*" THEN [flag |-> "Okay", s |-> ""]
    ELSE IF s = "!" THEN [flag |-> "Warning", s |-> ""]
    ELSE [flag |-> "Other", s |-> s]

Flag_from(s) ==
    IF s \in {"*", "txn"} THEN [flag |-> "Okay", s |-> ""]
    ELSE IF s = "!" THEN [flag |-> "Warning", s |-> ""]
    ELSE [flag |-> "Other", s |-> s]

\* Display for Flag
Flag_to_string(f) ==
    CASE f.flag = "Okay" -> "*" [] f.flag = "Warning" -> "!" [] OTHER -> f.s

\* Meta = HashMap<Cow<str>, MetaValue>: a set of entries, one per key.
Meta_new == {}
Meta_insert(m, k, v) == {e \in m : e.key # k} \cup {[key |-> k, value |-> v]}
Meta_keys(m) == {e.key : e \in m}
Meta_get(m, k) == (CHOOSE e \in m : e.key = k).value

-----------------------------------------------------------------------------
\* The parse state.

\* Orders in which the root-name table may be iterated: HashMap iteration
\* order is unspecified; the table is iterated in declaration order or in
\* the reverse order, so that every two entries are met in both orders.
RECURSIVE Reverse(_)
Reverse(q) == IF q = <<>> THEN <<>> ELSE Append(Reverse(Tail(q)), Head(q))

IterOrders == {AccountTypes, Reverse(AccountTypes)}

\* ParseState::new: the five default root names, no pushed tag.
ParseState_new(order) ==
    [root_names |-> [ty \in {AccountTypes[i] : i \in 1..Len(AccountTypes)} |-> default_name(ty)],
     order |-> order,
     pushed_tags |-> [t \in {} |-> 0]]

\* Width of the pushed-tag counter (u16).
U16 == 65536

\* push_tag: *entry.or_insert(0) += 1
push_tag(st, tag) ==
    LET m == st.pushed_tags
        old(t) == IF t \in DOMAIN m THEN m[t] ELSE 0
    IN [st EXCEPT !.pushed_tags =
            [t \in DOMAIN m \cup {tag} |-> IF t = tag THEN (old(t) + 1) % U16 ELSE m[t]]]

\* pop_tag that accepts the pop of an absent tag.
pop_tag_lenient(st, tag) ==
    [res |-> Ok(TRUE),
     st |-> [st EXCEPT !.pushed_tags = [t \in DOMAIN st.pushed_tags \ {tag} |-> st.pushed_tags[t]]]]

\* pop_tag that forgets every pushed tag when the popped tag is absent.
pop_tag_clearing(st, tag) ==
    IF tag \in DOMAIN st.pushed_tags
    THEN [res |-> Ok(TRUE),
          st |-> [st EXCEPT !.pushed_tags =
                     IF st.pushed_tags[tag] <= 1
                     THEN [t \in DOMAIN st.pushed_tags \ {tag} |-> st.pushed_tags[t]]
                     ELSE [t \in DOMAIN st.pushed_tags |->
                              IF t = tag THEN st.pushed_tags[t] - 1 ELSE st.pushed_tags[t]]]]
    ELSE [res |-> Err("Attempting to pop absent tag: '" \o tag \o "'"),
          st |-> [st EXCEPT !.pushed_tags = [t \in {} |-> 0]]]

\* pop_tag: the result and the state it leaves.
pop_tag(st, tag) ==
    LET m == st.pushed_tags
    IN IF tag \in DOMAIN m
       THEN [res |-> Ok(TRUE),
             st |-> [st EXCEPT !.pushed_tags =
                        IF m[tag] <= 1 THEN [t \in DOMAIN m \ {tag} |-> m[t]]
                        ELSE [t \in DOMAIN m |-> IF t = tag THEN m[t] - 1 ELSE m[t]]]]
       ELSE [res |-> Err("Attempting to pop absent tag: '" \o tag \o "'"), st |-> st]

\* get_pushed_tags that yields only the tags pushed exactly once.
get_pushed_tags_once(st) == {t \in DOMAIN st.pushed_tags : st.pushed_tags[t] = 1}

\* get_pushed_tags: the keys of the map.
get_pushed_tags(st) == DOMAIN st.pushed_tags

\* extract_tag: the text of the inner tag pair without its '#'.
extract_tag(pair) ==
    IF pair.inner = <<>> THEN Err(ParseError_invalid_state("tag"))
    ELSE Ok(Tail(pair.inner[1].str))

-----------------------------------------------------------------------------
\* Constructors of values from pairs.

as_str(pair) == Ok(pair.str)

date(pair) == Ok(pair.str)

flag(pair) == Ok(Flag_from(pair.str))

get_quoted_str(pair) ==
    IF pair.inner = <<>>
    THEN Err(ParseError_invalid_state_with_span("quoted string", pair))
    ELSE Ok(pair.inner[1].str)

\* The account types, in the iteration order of the table, whose current
\* name is the text.
TypesNamed(st, name) == SelectSeq(st.order, LAMBDA ty : st.root_names[ty] = name)

\* The account whose error for an unknown root carries no location.
account_unlocated(pair, st) ==
    IF pair.inner = <<>>
    THEN Err(ParseError_invalid_state_with_span("first part of account name", pair))
    ELSE IF TypesNamed(st, pair.inner[1].str) = <<>>
    THEN Err(ParseError_from_pest("Invalid root account", <<0, 0>>))
    ELSE Ok([ty |-> Head(TypesNamed(st, pair.inner[1].str)),
             parts |-> [i \in 1..(Len(pair.inner) - 1) |-> Tail(pair.inner[i + 1].str)]])

\* account: the first type, in the iteration order of the table, whose
\* current name is the first piece; the other pieces without their ':'.
account(pair, st) ==
    IF pair.inner = <<>>
    THEN Err(ParseError_invalid_state_with_span("first part of account name", pair))
    ELSE IF TypesNamed(st, pair.inner[1].str) = <<>>
    THEN Err(ParseError_from_pest("Invalid root account", pair.inner[1].at))
    ELSE Ok([ty |-> Head(TypesNamed(st, pair.inner[1].str)),
             parts |-> [i \in 1..(Len(pair.inner) - 1) |-> Tail(pair.inner[i + 1].str)]])

amount(pair) ==
    Try(num_expr(pair.inner[1]), LAMBDA n : Ok([num |-> n, currency |-> pair.inner[2].str]))

\* optional_rule: the next pair when it has the rule.
optional_rule(rule, ps) == IF ps # <<>> /\ ps[1].rule = rule THEN Some(ps[1]) ELSE None

\* The pairs left after optional_rule.
AfterOptional(rule, ps) == IF ps # <<>> /\ ps[1].rule = rule THEN Tail(ps) ELSE ps

incomplete_amount(pair) ==
    Try(IF optional_rule("num_expr", pair.inner) = None THEN Ok(None)
        ELSE Try(num_expr(pair.inner[1]), LAMBDA n : Ok(Some(n))),
        LAMBDA n :
            Ok([num |-> n,
                currency |-> IF optional_rule("commodity", AfterOptional("num_expr", pair.inner))
                                = None
                             THEN None
                             ELSE Some(AfterOptional("num_expr", pair.inner)[1].str)]))

IncompleteAmount_default == [num |-> None, currency |-> None]

\* price_annotation: whether the price is a total, and the amount written.
price_annotation(pair) ==
    IF pair.inner = <<>>
    THEN Err(ParseError_invalid_state_with_span("price annotation", pair))
    ELSE IF pair.inner[1].inner = <<>>
    THEN Err(ParseError_invalid_state_with_span("incomplete amount", pair))
    ELSE Try(incomplete_amount(pair.inner[1].inner[1]), LAMBDA a :
             Ok([is_total |-> pair.inner[1].rule = "price_annotation_total", amount |-> a]))

\* compound_amount: the first number is the per-unit number, a second one the
\* total; the commodity is the currency.
RECURSIVE compound_amount_loop(_, _, _)
compound_amount_loop(ps, i, acc) ==
    IF i > Len(ps) THEN Ok(acc)
    ELSE IF ps[i].rule = "num_expr"
    THEN Try(num_expr(ps[i]), LAMBDA n :
             compound_amount_loop(ps, i + 1,
                 IF acc.number_per = None THEN [acc EXCEPT !.number_per = Some(n)]
                 ELSE [acc EXCEPT !.number_total = Some(n)]))
    ELSE compound_amount_loop(ps, i + 1, [acc EXCEPT !.currency = Some(ps[i].str)])

compound_amount(pair) ==
    compound_amount_loop(pair.inner, 1,
                         [number_per |-> None, number_total |-> None, currency |-> None])

CostSpec_default ==
    [number_per |-> None, number_total |-> None, currency |-> None,
     date |-> None, label |-> None, merge_cost |-> FALSE]

RECURSIVE cost_spec_loop(_, _, _)
cost_spec_loop(ps, i, acc) ==
    IF i > Len(ps) THEN Ok(acc)
    ELSE CASE ps[i].rule = "date" ->
                cost_spec_loop(ps, i + 1, [acc EXCEPT !.date = Some(ps[i].str)])
           [] ps[i].rule = "quoted_str" ->
                Try(get_quoted_str(ps[i]), LAMBDA l :
                    cost_spec_loop(ps, i + 1, [acc EXCEPT !.label = Some(l)]))
           [] ps[i].rule = "compound_amount" ->
                Try(compound_amount(ps[i]), LAMBDA a :
                    cost_spec_loop(ps, i + 1,
                        [acc EXCEPT !.number_per = a.number_per,
                                    !.number_total = a.number_total,
                                    !.currency = a.currency]))
           [] ps[i].rule = "asterisk" ->
                cost_spec_loop(ps, i + 1, [acc EXCEPT !.merge_cost = TRUE])
           [] OTHER -> Panic("not implemented")

\* The cost that leaves the number of a total cost where it was read.
cost_spec_unswapped(pair) ==
    IF pair.inner = <<>>
    THEN Err(ParseError_invalid_state_with_span("cost spec component", pair))
    ELSE cost_spec_loop(pair.inner[1].inner, 1, CostSpec_default)

\* cost_spec: the components of the cost; with total-cost braces a second
\* number panics, and the one number becomes the total.
cost_spec(pair) ==
    IF pair.inner = <<>>
    THEN Err(ParseError_invalid_state_with_span("cost spec component", pair))
    ELSE Try(cost_spec_loop(pair.inner[1].inner, 1, CostSpec_default), LAMBDA c :
             IF pair.inner[1].rule # "cost_spec_total" THEN Ok(c)
             ELSE IF c.number_total # None
             THEN Panic("Per-unit cost may not be specified using total cost")
             ELSE Ok([c EXCEPT !.number_per = None, !.number_total = c.number_per]))

\* The price that divides a total price by the number of units.
PriceSpec_divided(anno, num_) ==
    IF anno.is_total /\ anno.amount.num # None /\ num_ # None
    THEN [PerUnit |-> [anno.amount EXCEPT
                          !.num = IF num_[1].m = 0 THEN None
                                  ELSE Some(Decimal_div(anno.amount.num[1], num_[1]))]]
    ELSE IF anno.is_total THEN [Total |-> anno.amount]
    ELSE [PerUnit |-> anno.amount]

\* The price of a posting, matched on the annotation and the number of
\* units: per unit after '@', total after '@@', the amount as written.
PriceSpec_of(anno, num_) ==
    IF anno.is_total THEN [Total |-> anno.amount] ELSE [PerUnit |-> anno.amount]

\* One optional part of a posting: the value F constructs from the pair when
\* the next pair has the rule.
Optional(rule, ps, F(_)) ==
    IF optional_rule(rule, ps) = None THEN Ok(None)
    ELSE Try(F(ps[1]), LAMBDA v : Ok(Some(v)))

\* The units of a posting: the default amount when none is written.
PostingUnits(ps) ==
    IF optional_rule("incomplete_amount", ps) = None THEN Ok(IncompleteAmount_default)
    ELSE incomplete_amount(ps[1])

\* The parts of a posting after its account.
PostingParts(fl, acc, in2) ==
    Try(PostingUnits(in2), LAMBDA units :
    Try(Optional("cost_spec", AfterOptional("incomplete_amount", in2), cost_spec), LAMBDA cost :
    Try(Optional("price_annotation",
                 AfterOptional("cost_spec", AfterOptional("incomplete_amount", in2)),
                 price_annotation), LAMBDA anno :
        Ok([flag |-> fl,
            account |-> acc,
            units |-> units,
            cost |-> cost,
            price |-> IF anno = None THEN None ELSE Some(PriceSpec_of(anno[1], units.num)),
            meta |-> Meta_new]))))

posting(pair, st) ==
    Let(AfterOptional("txn_flag", pair.inner), LAMBDA in1 :
        IF in1 = <<>> THEN Err(ParseError_invalid_state_with_span("account", pair))
        ELSE Try(account(in1[1], st), LAMBDA acc :
                 PostingParts(
                              IF optional_rule("txn_flag", pair.inner) = None THEN None
                              ELSE Some(Flag_from(pair.inner[1].str)),
                              acc, Tail(in1))))

\* The typed value of the pair inside a value pair.
MetaValue_of(vp, st) ==
    CASE vp.rule = "quoted_str" -> Try(get_quoted_str(vp), LAMBDA r : Ok([Text |-> r]))
      [] vp.rule = "account" -> Try(account(vp, st), LAMBDA r : Ok([Account |-> r]))
      [] vp.rule = "date" -> Ok([Date |-> vp.str])
      [] vp.rule = "commodity" -> Ok([Currency |-> vp.str])
      [] vp.rule = "tag" -> Ok([Tag |-> Tail(vp.str)])
      [] vp.rule = "bool" -> Ok([Bool |-> vp.str = "true"])
      [] vp.rule = "amount" -> Try(amount(vp), LAMBDA r : Ok([Amount |-> r]))
      [] vp.rule = "num_expr" -> Try(num_expr(vp), LAMBDA r : Ok([Number |-> r]))
      [] OTHER -> Panic("not implemented")

\* meta_kv_pair: the key and the typed value of a key_value pair.
meta_kv_pair(pair, st) ==
    IF pair.inner = <<>>
    THEN Err(ParseError_invalid_state_with_span("metadata key", pair))
    ELSE IF Len(pair.inner) < 2 \/ pair.inner[2].inner = <<>>
    THEN Err(ParseError_invalid_state_with_span("metadata value", pair))
    ELSE Try(MetaValue_of(pair.inner[2].inner[1], st), LAMBDA v :
             Ok([key |-> pair.inner[1].str, value |-> v]))

\* meta_kv: the entries of an eol_kv_list pair collected into a map, a later
\* entry replacing an earlier one of the same key.
RECURSIVE meta_kv_loop(_, _, _, _)
meta_kv_loop(ps, i, m, st) ==
    IF i > Len(ps) THEN Ok(m)
    ELSE Try(meta_kv_pair(ps[i], st), LAMBDA kv :
             meta_kv_loop(ps, i + 1, Meta_insert(m, kv.key, kv.value), st))

meta_kv(pair, st) == meta_kv_loop(pair.inner, 1, Meta_new, st)

\* The texts, without their sigils, of the pairs of ps that have the rule.
Named(ps, rule) == {Tail(ps[i].str) : i \in {k \in 1..Len(ps) : ps[k].rule = rule}}

\* tags_links: tags and links of a header, without their sigils.
tags_links(pair) ==
    Ok([tags |-> Named(pair.inner, "tag"), links |-> Named(pair.inner, "link")])

-----------------------------------------------------------------------------
\* Directives.

\* The next pair of a directive constructed by F, or the invalid state that
\* names what is missing.
Next_pair(ps, k, what, F(_)) ==
    IF Len(ps) < k THEN Err(ParseError_invalid_state(what)) ELSE F(ps[k])

option_directive(directive) ==
    Try(Next_pair(directive.inner, 1, "name", get_quoted_str), LAMBDA n :
    Try(Next_pair(directive.inner, 2, "val", get_quoted_str), LAMBDA v :
        Ok([kind |-> "Option", name |-> n, val |-> v, source |-> Some(directive.str)])))

include_directive(directive) ==
    Try(Next_pair(directive.inner, 1, "filename", get_quoted_str), LAMBDA f :
        Ok([kind |-> "Include", filename |-> f, source |-> Some(directive.str)]))

\* The arguments of a custom: get_quoted_str of every pair of the list.
RECURSIVE custom_args(_, _, _)
custom_args(ps, i, acc) ==
    IF i > Len(ps) THEN Ok(acc)
    ELSE Try(get_quoted_str(ps[i]), LAMBDA a : custom_args(ps, i + 1, Append(acc, a)))

\* The arguments and the metadata of a custom pair.
CustomParts(directive, st, d, n, rest) ==
    Try(IF optional_rule("custom_value_list", rest) = None THEN Ok(<<>>)
        ELSE custom_args(rest[1].inner, 1, <<>>), LAMBDA args :
    Try(Next_pair(AfterOptional("custom_value_list", rest), 1,
                  "meta", LAMBDA p : meta_kv(p, st)), LAMBDA m :
        Ok([kind |-> "Custom", date |-> d, name |-> n, args |-> args, meta |-> m,
            source |-> Some(directive.str)])))

custom_directive(directive, st) ==
    Try(Next_pair(directive.inner, 1, "date", date), LAMBDA d :
    Try(Next_pair(directive.inner, 2, "name", get_quoted_str), LAMBDA n :
        CustomParts(directive, st, d, n, SubSeq(directive.inner, 3, Len(directive.inner)))))

\* get_quoted_str begins with debug_assert!(pair.as_rule() == Rule::quoted_str):
\* the pairs of a directive on which a build with debug assertions panics
\* there. Only the arguments of a custom reach get_quoted_str with another
\* rule.
DebugAssertFails(pair) ==
    /\ pair.rule = "custom"
    /\ Len(pair.inner) >= 3 /\ pair.inner[3].rule = "custom_value_list"
    /\ \E k \in 1..Len(pair.inner[3].inner) : pair.inner[3].inner[k].rule # "quoted_str"

\* The text with its capital letters made small.
LowerOf(c) ==
    IF c \in Upper
    THEN CharAt("abcdefghijklmnopqrstuvwxyz",
                CHOOSE k \in 1..26 : CharAt("ABCDEFGHIJKLMNOPQRSTUVWXYZ", k) = c)
    ELSE c

Lowercase(s) == Concat([k \in 1..Len(s) |-> LowerOf(CharAt(s, k))])

\* Booking::try_from: the booking method a string names, whatever its case.
Booking_try_from(s) ==
    CASE Lowercase(s) = "strict" -> Ok("Strict")
      [] Lowercase(s) = "none" -> Ok("None")
      [] Lowercase(s) = "average" -> Ok("Average")
      [] Lowercase(s) = "fifo" -> Ok("Fifo")
      [] Lowercase(s) = "lifo" -> Ok("Lifo")
      [] OTHER -> Err("unknown booking method")

\* The booking of an open pair: the method its quoted string names, or none
\* where no string is written.
OpenBooking(ps) ==
    IF optional_rule("quoted_str", ps) = None THEN Ok(None)
    ELSE Try(get_quoted_str(ps[1]), LAMBDA q :
             IF Booking_try_from(q).ok THEN Ok(Some(Booking_try_from(q).val))
             ELSE Err(ParseError_invalid_input_with_span(
                          "unknown booking method " \o ps[1].str, ps[1])))

\* The currencies of an open pair: the texts of its commodity list.
OpenCurrencies(ps) ==
    IF optional_rule("commodity_list", ps) = None THEN <<>>
    ELSE [k \in 1..Len(ps[1].inner) |-> ps[1].inner[k].str]

\* The optional parts of an open pair and its metadata.
OpenParts(directive, st, d, a, rest) ==
    Try(OpenBooking(AfterOptional("commodity_list", rest)), LAMBDA b :
    Try(Next_pair(AfterOptional("quoted_str", AfterOptional("commodity_list", rest)), 1,
                  "meta", LAMBDA p : meta_kv(p, st)), LAMBDA m :
        Ok([kind |-> "Open", date |-> d, account |-> a,
            currencies |-> OpenCurrencies(rest), booking |-> b, meta |-> m,
            source |-> Some(directive.str)])))

open_directive(directive, st) ==
    Try(Next_pair(directive.inner, 1, "date", date), LAMBDA d :
    Try(Next_pair(directive.inner, 2, "account", LAMBDA p : account(p, st)), LAMBDA a :
        OpenParts(directive, st, d, a, SubSeq(directive.inner, 3, Len(directive.inner)))))

pad_directive(directive, st) ==
    Try(Next_pair(directive.inner, 1, "date", date), LAMBDA d :
    Try(Next_pair(directive.inner, 2, "pad_to_account", LAMBDA p : account(p, st)), LAMBDA a :
    Try(Next_pair(directive.inner, 3, "pad_from_account", LAMBDA p : account(p, st)), LAMBDA b :
    Try(Next_pair(directive.inner, 4, "meta", LAMBDA p : meta_kv(p, st)), LAMBDA m :
        Ok([kind |-> "Pad", date |-> d, pad_to_account |-> a, pad_from_account |-> b,
            meta |-> m, source |-> Some(directive.str)])))))

\* The close whose source is its header line alone.
close_directive_header(directive, st) ==
    Try(Next_pair(directive.inner, 1, "date", date), LAMBDA d :
    Try(Next_pair(directive.inner, 2, "account", LAMBDA p : account(p, st)), LAMBDA a :
    Try(Next_pair(directive.inner, 3, "meta", LAMBDA p : meta_kv(p, st)), LAMBDA m :
        Ok([kind |-> "Close", date |-> d, account |-> a, meta |-> m,
            source |-> Some(SubSeq(directive.str, 1, IndexOf(directive.str, "\n", 1)))]))))

close_directive(directive, st) ==
    Try(Next_pair(directive.inner, 1, "date", date), LAMBDA d :
    Try(Next_pair(directive.inner, 2, "account", LAMBDA p : account(p, st)), LAMBDA a :
    Try(Next_pair(directive.inner, 3, "meta", LAMBDA p : meta_kv(p, st)), LAMBDA m :
        Ok([kind |-> "Close", date |-> d, account |-> a, meta |-> m,
            source |-> Some(directive.str)]))))

\* The reading that takes the first of two strings for the narration.
payee_narration_swapped(pair) ==
    IF pair.inner = <<>>
    THEN Err(ParseError_invalid_state_with_span("payee or narration", pair))
    ELSE Try(get_quoted_str(pair.inner[1]), LAMBDA first :
             IF Len(pair.inner) < 2 THEN Ok([payee |-> None, narration |-> first])
             ELSE Try(get_quoted_str(pair.inner[2]), LAMBDA second :
                      Ok([payee |-> Some(second), narration |-> first])))

\* The payee and the narration of a txn_strings pair.
payee_narration(pair) ==
    IF pair.inner = <<>>
    THEN Err(ParseError_invalid_state_with_span("payee or narration", pair))
    ELSE Try(get_quoted_str(pair.inner[1]), LAMBDA first :
             IF Len(pair.inner) < 2 THEN Ok([payee |-> None, narration |-> first])
             ELSE Try(get_quoted_str(pair.inner[2]), LAMBDA second :
                      Ok([payee |-> Some(first), narration |-> second])))

\* The insertion that puts every key_value in the map of the transaction.
Body_insert_tx(acc, kv) == [acc EXCEPT !.tx_meta = Meta_insert(@, kv.key, kv.value)]

\* A key_value of a body: it goes to the last posting when there is one,
\* else to the transaction.
Body_insert(acc, kv) ==
    IF Len(acc.postings) > 0
    THEN [acc EXCEPT !.postings[Len(acc.postings)].meta = Meta_insert(@, kv.key, kv.value)]
    ELSE [acc EXCEPT !.tx_meta = Meta_insert(@, kv.key, kv.value)]

\* The scan of a transaction body: a posting is appended; a key_value goes to
\* the last posting when there is one, else to the transaction; a tag or a
\* link is added to the sets of the transaction.
RECURSIVE body_loop(_, _, _, _)
body_loop(ps, i, acc, st) ==
    IF i > Len(ps) THEN Ok(acc)
    ELSE CASE ps[i].rule = "posting" ->
                Try(posting(ps[i], st), LAMBDA r :
                    body_loop(ps, i + 1, [acc EXCEPT !.postings = Append(@, r)], st))
           [] ps[i].rule = "key_value" ->
                Try(meta_kv_pair(ps[i], st), LAMBDA kv :
                    body_loop(ps, i + 1, Body_insert(acc, kv), st))
           [] ps[i].rule = "tag" ->
                body_loop(ps, i + 1, [acc EXCEPT !.tags = @ \cup {Tail(ps[i].str)}], st)
           [] ps[i].rule = "link" ->
                body_loop(ps, i + 1, [acc EXCEPT !.links = @ \cup {Tail(ps[i].str)}], st)
           [] OTHER -> Panic("not implemented")

\* The tags and links of the header and the body of a transaction.
TransactionBody(directive, st, rest) ==
    Try(IF optional_rule("tags_links", rest) = None THEN Ok([tags |-> {}, links |-> {}])
        ELSE tags_links(rest[1]), LAMBDA tl :
        IF AfterOptional("tags_links", rest) = <<>>
        THEN Err(ParseError_invalid_state_with_span("(meta, postings)", directive))
        ELSE body_loop(AfterOptional("tags_links", rest)[1].inner, 1,
                       [postings |-> <<>>, tx_meta |-> Meta_new,
                        tags |-> tl.tags, links |-> tl.links], st))

transaction_directive(directive, st) ==
    Try(Next_pair(directive.inner, 1, "date", date), LAMBDA d :
    Try(Next_pair(directive.inner, 2, "flag", flag), LAMBDA f :
    Try(IF Len(directive.inner) < 3
        THEN Err(ParseError_invalid_state_with_span("(payee, narration)", directive))
        ELSE payee_narration(directive.inner[3]), LAMBDA pn :
    Try(TransactionBody(directive, st, SubSeq(directive.inner, 4, Len(directive.inner))),
        LAMBDA body :
        Ok([kind |-> "Transaction", date |-> d, flag |-> f,
            payee |-> pn.payee, narration |-> pn.narration,
            tags |-> body.tags \cup get_pushed_tags(st),
            links |-> body.links,
            postings |-> body.postings, meta |-> body.tx_meta,
            source |-> Some(directive.str)])))))

Unsupported == [kind |-> "Unsupported"]

directive(pair, st) ==
    CASE pair.rule = "option" -> option_directive(pair)
      [] pair.rule = "include" -> include_directive(pair)
      [] pair.rule = "open" -> open_directive(pair, st)
      [] pair.rule = "pad" -> pad_directive(pair, st)
      [] pair.rule = "close" -> close_directive(pair, st)
      [] pair.rule = "custom" -> custom_directive(pair, st)
      [] pair.rule = "transaction" -> transaction_directive(pair, st)
      [] OTHER -> Ok(Unsupported)

\* The option that renames nothing.
root_name_change_none(opt) == None

\* root_name_change: the account type an option renames, with the new name.
root_name_change(opt) ==
    CASE opt.name = "name_assets" -> Some([ty |-> "Assets", name |-> opt.val])
      [] opt.name = "name_liabilities" -> Some([ty |-> "Liabilities", name |-> opt.val])
      [] opt.name = "name_equity" -> Some([ty |-> "Equity", name |-> opt.val])
      [] opt.name = "name_income" -> Some([ty |-> "Income", name |-> opt.val])
      [] opt.name = "name_expenses" -> Some([ty |-> "Expenses", name |-> opt.val])
      [] OTHER -> None

-----------------------------------------------------------------------------
\* The renderer. The hash maps and hash sets of a ledger are written in an
\* unspecified order: rank is a sequence of strings, and a collection is
\* written in the order its elements have in rank.

Ranked(S, rank) == SelectSeq(rank, LAMBDA x : x \in S)

Account_render(a) == default_name(a.ty) \o ":" \o Join(a.parts, ":")

Amount_render(a) == Decimal_to_string(a.num) \o " " \o a.currency

IncompleteAmount_render(a) ==
    IF a.num # None /\ a.currency # None
    THEN Decimal_to_string(a.num[1]) \o " " \o a.currency[1]
    ELSE IF a.currency # None THEN a.currency[1]
    ELSE IF a.num # None THEN Decimal_to_string(a.num[1])
    ELSE ""

MetaValue_render(v) ==
    CASE "Account" \in DOMAIN v -> Account_render(v.Account)
      [] "Amount" \in DOMAIN v -> Amount_render(v.Amount)
      [] "Bool" \in DOMAIN v -> IF v.Bool THEN "true" ELSE "false"
      [] "Currency" \in DOMAIN v -> v.Currency
      [] "Date" \in DOMAIN v -> v.Date
      [] "Number" \in DOMAIN v -> Decimal_to_string(v.Number)
      [] "Tag" \in DOMAIN v -> v.Tag
      [] "Text" \in DOMAIN v -> v.Text

render_key_value(kv, rank) ==
    LET keys == Ranked(Meta_keys(kv), rank)
    IN Concat([i \in 1..Len(keys) |->
                  "\t" \o keys[i] \o ": " \o MetaValue_render(Meta_get(kv, keys[i])) \o "\n"])

CostSpec_render(cost) ==
    LET double_brackets == cost.number_total # None
        n == IF cost.number_total # None THEN cost.number_total ELSE cost.number_per
        hasAmount == n # None /\ cost.currency # None
        amt == IF hasAmount THEN Decimal_to_string(n[1]) \o " " \o cost.currency[1] ELSE ""
        dt == IF cost.date = None THEN ""
              ELSE (IF hasAmount THEN ", " ELSE "") \o cost.date[1]
        lb == IF cost.label = None THEN ""
              ELSE (IF hasAmount \/ cost.date # None THEN ", " ELSE "") \o cost.label[1]
    IN (IF double_brackets THEN "{{" ELSE "{") \o amt \o dt \o lb
       \o (IF double_brackets THEN "}}" ELSE "}")

\* The price of a posting is written as its amount.
PriceSpec_render(price) ==
    IF "Total" \in DOMAIN price THEN IncompleteAmount_render(price.Total)
    ELSE IncompleteAmount_render(price.PerUnit)

Posting_render(posting_, rank) ==
    "\t"
    \o (IF posting_.flag # None THEN Flag_to_string(posting_.flag[1]) \o " " ELSE "")
    \o Account_render(posting_.account) \o "\t"
    \o IncompleteAmount_render(posting_.units)
    \o (IF posting_.cost # None THEN " " \o CostSpec_render(posting_.cost[1]) ELSE "")
    \o (IF posting_.price # None THEN " @ " \o PriceSpec_render(posting_.price[1]) ELSE "")
    \o "\n"
    \o render_key_value(posting_.meta, rank)

Transaction_render(t, rank) ==
    LET tags == Ranked(t.tags, rank)
        links == Ranked(t.links, rank)
    IN t.date \o " " \o Flag_to_string(t.flag)
       \o (IF t.payee # None THEN " \"" \o t.payee[1] \o "\"" ELSE "")
       \o " \"" \o t.narration \o "\""
       \o Concat([i \in 1..Len(tags) |-> " " \o tags[i]])
       \o Concat([i \in 1..Len(links) |-> " " \o links[i]])
       \o "\n"
       \o Concat([i \in 1..Len(t.postings) |-> Posting_render(t.postings[i], rank)])
       \o render_key_value(t.meta, rank)

Close_render(close, rank) ==
    close.date \o " close " \o Account_render(close.account) \o "\n"
    \o render_key_value(close.meta, rank)

\* The booking of an open directive: written in small letters between
\* quotes; nothing where the method is None or there is none.
Booking_render(booking) ==
    CASE booking = Some("Strict") -> " \"strict\""
      [] booking = Some("Average") -> " \"average\""
      [] booking = Some("Fifo") -> " \"fifo\""
      [] booking = Some("Lifo") -> " \"lifo\""
      [] OTHER -> ""

Open_render(open, rank) ==
    open.date \o " open " \o Account_render(open.account)
    \o Concat([i \in 1..Len(open.currencies) |-> " " \o open.currencies[i]])
    \o Booking_render(open.booking) \o "\n"
    \o render_key_value(open.meta, rank)

Pad_render(pad, rank) ==
    pad.date \o " pad " \o Account_render(pad.pad_to_account) \o " "
    \o Account_render(pad.pad_from_account) \o "\n"
    \o render_key_value(pad.meta, rank)

BcOption_render(option) ==
    "option \"" \o option.name \o "\" \"" \o option.val \o "\"\n"

Include_render(include) == "include \"" \o include.filename \o "'\n"

Directive_render(d, rank) ==
    CASE d.kind = "Open" -> Ok(Open_render(d, rank))
      [] d.kind = "Close" -> Ok(Close_render(d, rank))
      [] d.kind = "Pad" -> Ok(Pad_render(d, rank))
      [] d.kind = "Option" -> Ok(BcOption_render(d))
      [] d.kind = "Include" -> Ok(Include_render(d))
      [] d.kind = "Transaction" -> Ok(Transaction_render(d, rank))
      [] OTHER -> Err("Unsupported")

\* A rendering that passes over the directives it cannot render.
RECURSIVE Ledger_render_skipping(_, _, _, _)
Ledger_render_skipping(ds, i, out, rank) ==
    IF i > Len(ds) THEN Ok(out)
    ELSE Let(Directive_render(ds[i], rank), LAMBDA r :
             Ledger_render_skipping(ds, i + 1,
                                    IF r.ok THEN out \o r.val \o "\n" ELSE out, rank))

\* Renderer<&Ledger>: each directive followed by an empty line; the first
\* directive that cannot be rendered ends the rendering, and the writer
\* keeps what was written before it.
RECURSIVE Ledger_render(_, _, _, _)
Ledger_render(ds, i, out, rank) ==
    IF i > Len(ds) THEN Ok(out)
    ELSE Let(Directive_render(ds[i], rank), LAMBDA r :
             IF r.ok THEN Ledger_render(ds, i + 1, out \o r.val \o "\n", rank)
             ELSE [ok |-> FALSE, err |-> r.err, val |-> out])

render(ledger, rank) == Ledger_render(ledger, 1, "", rank)

\* The strings of the hash maps and hash sets of a ledger.
MetaNames(d) ==
    IF d.kind \in {"Open", "Close", "Pad"} THEN Meta_keys(d.meta)
    ELSE IF d.kind = "Transaction"
    THEN d.tags \cup d.links \cup Meta_keys(d.meta)
         \cup UNION {Meta_keys(d.postings[i].meta) : i \in 1..Len(d.postings)}
    ELSE {}

LedgerNames(ledger) == UNION {MetaNames(ledger[i]) : i \in 1..Len(ledger)}

Perms(S) ==
    {f \in [1..Cardinality(S) -> S] : \A i, j \in 1..Cardinality(S) : i # j => f[i] # f[j]}

-----------------------------------------------------------------------------
\* Equality of ledgers (the derived PartialEq): field by field, numbers
\* compared by value.

Option_eq(a, b, Eq(_, _)) == IF a = None \/ b = None THEN a = b ELSE Eq(a[1], b[1])

IncompleteAmount_eq(a, b) == Option_eq(a.num, b.num, Decimal_eq) /\ a.currency = b.currency

MetaValue_eq(a, b) ==
    /\ DOMAIN a = DOMAIN b
    /\ CASE "Number" \in DOMAIN a -> Decimal_eq(a.Number, b.Number)
         [] "Amount" \in DOMAIN a ->
              Decimal_eq(a.Amount.num, b.Amount.num) /\ a.Amount.currency = b.Amount.currency
         [] OTHER -> a = b

Meta_eq(a, b) ==
    /\ Meta_keys(a) = Meta_keys(b)
    /\ \A k \in Meta_keys(a) : MetaValue_eq(Meta_get(a, k), Meta_get(b, k))

CostSpec_eq(a, b) ==
    /\ Option_eq(a.number_per, b.number_per, Decimal_eq)
    /\ Option_eq(a.number_total, b.number_total, Decimal_eq)
    /\ a.currency = b.currency /\ a.date = b.date /\ a.label = b.label
    /\ a.merge_cost = b.merge_cost

PriceSpec_eq(a, b) ==
    /\ DOMAIN a = DOMAIN b
    /\ IF "Total" \in DOMAIN a THEN IncompleteAmount_eq(a.Total, b.Total)
       ELSE IncompleteAmount_eq(a.PerUnit, b.PerUnit)

Posting_eq(a, b) ==
    /\ a.flag = b.flag /\ a.account = b.account
    /\ IncompleteAmount_eq(a.units, b.units)
    /\ Option_eq(a.cost, b.cost, CostSpec_eq)
    /\ Option_eq(a.price, b.price, PriceSpec_eq)
    /\ Meta_eq(a.meta, b.meta)

Directive_eq(a, b) ==
    /\ a.kind = b.kind
    /\ CASE a.kind = "Close" ->
              a.date = b.date /\ a.account = b.account /\ Meta_eq(a.meta, b.meta)
              /\ a.source = b.source
         [] a.kind = "Open" ->
              a.date = b.date /\ a.account = b.account /\ a.currencies = b.currencies
              /\ a.booking = b.booking /\ Meta_eq(a.meta, b.meta) /\ a.source = b.source
         [] a.kind = "Pad" ->
              a.date = b.date /\ a.pad_to_account = b.pad_to_account
              /\ a.pad_from_account = b.pad_from_account
              /\ Meta_eq(a.meta, b.meta) /\ a.source = b.source
         [] a.kind = "Transaction" ->
              /\ a.date = b.date /\ a.flag = b.flag /\ a.payee = b.payee
              /\ a.narration = b.narration /\ a.tags = b.tags /\ a.links = b.links
              /\ Len(a.postings) = Len(b.postings)
              /\ \A i \in 1..Len(a.postings) : Posting_eq(a.postings[i], b.postings[i])
              /\ Meta_eq(a.meta, b.meta)
              /\ a.source = b.source
         [] OTHER -> a = b

Ledger_eq(a, b) ==
    Len(a) = Len(b) /\ \A i \in 1..Len(a) : Directive_eq(a[i], b[i])

-----------------------------------------------------------------------------
\* parse as a state machine: the grammar is run first, then the loop over the
\* top-level pairs takes one pair per step.  The conversion test parses a
\* source, renders the ledger, parses the rendered text and compares; the
\* harness keeps its stage, the source, the ledgers and the rendered texts.

NoHarness == [stage |-> 1, source |-> "", ledgers |-> <<>>, texts |-> <<>>]

InitWith(Inputs) ==
    /\ input \in Inputs
    /\ pc = "start"
    /\ pairs = <<>>
    /\ idx = 1
    /\ state = ParseState_new(AccountTypes)
    /\ directives = <<>>
    /\ result = None
    /\ harness = NoHarness

\* Line 148: the grammar accepts the input, or parse returns the pest error.
\* Lines 152-153: a new state and an empty list of directives.
\* A start that keeps the root names and the tags the variables hold.
ParseStart_keeping ==
    /\ pc = "start"
    /\ \E g \in {BeancountParser_parse(input)} :
         IF g.ok
         THEN /\ \E order \in IterOrders : state' = [state EXCEPT !.order = order]
              /\ pairs' = g.pair.inner
              /\ idx' = 1
              /\ directives' = <<>>
              /\ pc' = "loop"
              /\ UNCHANGED <<input, result, harness>>
         ELSE /\ result' = Some(Err(ParseError_from_pest("expected beancount file", g.at)))
              /\ pc' = "done"
              /\ UNCHANGED <<input, pairs, idx, state, directives, harness>>

ParseStart ==
    /\ pc = "start"
    /\ \E g \in {BeancountParser_parse(input)} :
         IF g.ok
         THEN /\ \E order \in IterOrders : state' = ParseState_new(order)
              /\ pairs' = g.pair.inner
              /\ idx' = 1
              /\ directives' = <<>>
              /\ pc' = "loop"
              /\ UNCHANGED <<input, result, harness>>
         ELSE /\ result' = Some(Err(ParseError_from_pest("expected beancount file", g.at)))
              /\ pc' = "done"
              /\ UNCHANGED <<input, pairs, idx, state, directives, harness>>

\* Rule::pushtag
ParsePushtag ==
    /\ pc = "loop" /\ idx <= Len(pairs)
    /\ pairs[idx].rule = "pushtag"
    /\ \E t \in {extract_tag(pairs[idx])} :
         IF t.ok
         THEN /\ state' = push_tag(state, t.val)
              /\ idx' = idx + 1
              /\ UNCHANGED <<pc, result>>
         ELSE /\ result' = Some(t)
              /\ pc' = "done"
              /\ UNCHANGED <<state, idx>>
    /\ UNCHANGED <<input, pairs, directives, harness>>

\* Rule::poptag
\* A loop that goes on to the next element after the pop of an absent tag.
ParsePoptag_continuing ==
    /\ pc = "loop" /\ idx <= Len(pairs)
    /\ pairs[idx].rule = "poptag"
    /\ \E t \in {extract_tag(pairs[idx])} :
         IF ~t.ok
         THEN /\ result' = Some(t)
              /\ pc' = "done"
              /\ UNCHANGED <<state, idx>>
         ELSE /\ state' = pop_tag(state, t.val).st
              /\ idx' = idx + 1
              /\ UNCHANGED <<pc, result>>
    /\ UNCHANGED <<input, pairs, directives, harness>>

ParsePoptag ==
    /\ pc = "loop" /\ idx <= Len(pairs)
    /\ pairs[idx].rule = "poptag"
    /\ \E t \in {extract_tag(pairs[idx])} :
         IF ~t.ok
         THEN /\ result' = Some(t)
              /\ pc' = "done"
              /\ UNCHANGED <<state, idx>>
         ELSE \E r \in {pop_tag(state, t.val)} :
                IF ~r.res.ok
                THEN /\ result' = Some(Err(ParseError_invalid_input_with_span(
                                               r.res.err, pairs[idx])))
                     /\ pc' = "done"
                     /\ state' = r.st
                     /\ UNCHANGED idx
                ELSE /\ state' = r.st
                     /\ idx' = idx + 1
                     /\ UNCHANGED <<pc, result>>
    /\ UNCHANGED <<input, pairs, directives, harness>>

\* A renaming that gives the new name to every root.
Renamed_all(st, dir) ==
    IF dir.kind = "Option" /\ root_name_change(dir) # None
    THEN [st EXCEPT !.root_names = [ty \in DOMAIN st.root_names |-> root_name_change(dir)[1].name]]
    ELSE st

\* The table of root names after a directive: an option that renames a root
\* account replaces the name of its type.
Renamed(st, dir) ==
    IF dir.kind = "Option" /\ root_name_change(dir) # None
    THEN [st EXCEPT !.root_names[root_name_change(dir)[1].ty] = root_name_change(dir)[1].name]
    ELSE st

\* Any other pair: the directive is constructed and appended; an option that
\* renames a root account updates the table.
ParseDirective ==
    /\ pc = "loop" /\ idx <= Len(pairs)
    /\ pairs[idx].rule \notin {"EOI", "pushtag", "poptag"}
    /\ \/ \E r \in {directive(pairs[idx], state)} :
            IF ~r.ok
            THEN /\ result' = Some(r)
                 /\ pc' = "done"
                 /\ UNCHANGED <<state, idx, directives>>
            ELSE /\ state' = Renamed(state, r.val)
                 /\ directives' = Append(directives, r.val)
                 /\ idx' = idx + 1
                 /\ UNCHANGED <<pc, result>>
       \/ /\ DebugAssertFails(pairs[idx])
          /\ result' = Some(Panic("assertion failed: pair.as_rule() == Rule::quoted_str"))
          /\ pc' = "done"
          /\ UNCHANGED <<state, idx, directives>>
    /\ UNCHANGED <<input, pairs, harness>>

\* The quoting with double quotes.
DoubleQuoted(q) == [i \in 1..Len(q) |-> "\"" \o q[i] \o "\""]

\* Lines 158-162: each tag between single quotes.
Quoted(q) == [i \in 1..Len(q) |-> "'" \o q[i] \o "'"]

\* Rule::EOI: the tags still pushed, in the order the map yields them, make
\* the error; with none the ledger is returned.
ParseEOI ==
    /\ pc = "loop" /\ idx <= Len(pairs)
    /\ pairs[idx].rule = "EOI"
    /\ \E keys \in Perms(get_pushed_tags(state)) :
         result' = IF keys # <<>>
                   THEN Some(Err(ParseError_invalid_input_with_span(
                            "Unbalanced pushed tag(s): " \o Join(Quoted(keys), ", "),
                            pairs[idx])))
                   ELSE Some(Ok(directives))
    /\ pc' = "done"
    /\ UNCHANGED <<input, pairs, idx, state, directives, harness>>

Next == ParseStart \/ ParsePushtag \/ ParsePoptag \/ ParseDirective \/ ParseEOI

\* test_conversion, lines 8-13: the ledger of the source is rendered, the
\* hash maps and sets written in some order, and the rendered text is parsed.
RenderLedger ==
    /\ pc = "done" /\ harness.stage = 1
    /\ result # None /\ result[1].ok
    /\ \E rank \in Perms(LedgerNames(result[1].val)) :
         \E r \in {render(result[1].val, rank)} :
           IF r.ok
           THEN /\ harness' = [stage |-> 2, source |-> input,
                               ledgers |-> <<result[1].val>>, texts |-> <<r.val>>]
                /\ input' = r.val
                /\ pc' = "start"
                /\ result' = None
           ELSE /\ harness' = [harness EXCEPT !.stage = 0]
                /\ UNCHANGED <<input, pc, result>>
    /\ pairs' = <<>>
    /\ idx' = 1
    /\ directives' = <<>>
    /\ state' = ParseState_new(AccountTypes)

\* The ledger of the rendered text is rendered in its turn.
RenderAgain ==
    /\ pc = "done" /\ harness.stage = 2
    /\ result # None /\ result[1].ok
    /\ \E rank \in Perms(LedgerNames(result[1].val)) :
         \E r \in {render(result[1].val, rank)} :
           harness' = [harness EXCEPT
                          !.stage = IF r.ok THEN 3 ELSE 0,
                          !.ledgers = Append(@, result[1].val),
                          !.texts = IF r.ok THEN Append(@, r.val) ELSE @]
    /\ UNCHANGED <<input, pc, pairs, idx, state, directives, result>>

NextConversion == Next \/ RenderLedger \/ RenderAgain

\* A caller renders a ledger of its own into a writer that never fails: the
\* harness holds the ledger and what the writer has received, result what
\* render returned.
InitRender(Ledgers) ==
    /\ harness \in {[stage |-> 0, source |-> "", ledgers |-> <<l>>, texts |-> <<"">>] :
                       l \in Ledgers}
    /\ pc = "render"
    /\ input = ""
    /\ pairs = <<>>
    /\ idx = 1
    /\ state = ParseState_new(AccountTypes)
    /\ directives = <<>>
    /\ result = None

RenderOwn ==
    /\ pc = "render"
    /\ \E rank \in Perms(LedgerNames(harness.ledgers[1])) :
         \E r \in {render(harness.ledgers[1], rank)} :
           /\ result' = Some(IF r.ok THEN Ok(<<>>) ELSE Err(r.err))
           /\ harness' = [harness EXCEPT !.texts = <<r.val>>]
    /\ pc' = "rendered"
    /\ UNCHANGED <<input, pairs, idx, state, directives>>

NextRender == RenderOwn

\* A caller makes several calls of parse: one runs, another is interleaved
\* with it, and a call that has returned is followed by a new one. The
\* variables of the module are those of the running call; the harness holds
\* the other call (its input and every local of it), the calls that have
\* returned and the number of calls still to make.
Call(s) ==
    [input |-> s, pc |-> "start", pairs |-> <<>>, idx |-> 1,
     state |-> ParseState_new(AccountTypes), directives |-> <<>>, result |-> None]

InitCalls(Inputs, Others, n) ==
    /\ input \in Inputs
    /\ pc = "start"
    /\ pairs = <<>>
    /\ idx = 1
    /\ state = ParseState_new(AccountTypes)
    /\ directives = <<>>
    /\ result = None
    /\ harness \in {[stage |-> 4, other |-> Call(s), calls |-> <<>>, left |-> n, inputs |-> Inputs] :
                       s \in Others}

\* The other call runs from here on; the locals of each call go with it.
Switch ==
    /\ harness.stage = 4
    /\ harness.other.pc # "done"
    /\ harness' = [harness EXCEPT !.other =
                       [input |-> input, pc |-> pc, pairs |-> pairs, idx |-> idx,
                        state |-> state, directives |-> directives, result |-> result]]
    /\ input' = harness.other.input
    /\ pc' = harness.other.pc
    /\ pairs' = harness.other.pairs
    /\ idx' = harness.other.idx
    /\ state' = harness.other.state
    /\ directives' = harness.other.directives
    /\ result' = harness.other.result

\* The call has returned: the caller keeps its result and calls parse again,
\* where the frame of the call that returned still lies.
CallAgain ==
    /\ harness.stage = 4 /\ harness.left > 0
    /\ pc = "done"
    /\ harness' = [harness EXCEPT
                      !.calls = Append(@, [input |-> input, order |-> state.order,
                                           result |-> result[1]]),
                      !.left = @ - 1]
    /\ input' \in harness.inputs
    /\ pc' = "start"
    /\ result' = None
    /\ UNCHANGED <<pairs, idx, state, directives>>

NextCalls == Next \/ Switch \/ CallAgain

\* A caller converts a text to a flag, displays the flag, and converts the
\* displayed text: input is the text to convert, the harness holds the first
\* text, the flags made and the texts displayed.
InitFlag(Texts_) ==
    /\ input \in Texts_
    /\ pc = "flag"
    /\ pairs = <<>>
    /\ idx = 1
    /\ state = ParseState_new(AccountTypes)
    /\ directives = <<>>
    /\ result = None
    /\ harness = [stage |-> 5, source |-> input, flags |-> <<>>, texts |-> <<>>]

FlagFrom ==
    /\ pc = "flag"
    /\ harness' = [harness EXCEPT !.flags = Append(@, Flag_from(input))]
    /\ result' = Some(Flag_from(input))
    /\ pc' = "made"
    /\ UNCHANGED <<input, pairs, idx, state, directives>>

FlagDisplay ==
    /\ pc = "made" /\ Len(harness.texts) < 2
    /\ harness' = [harness EXCEPT !.texts = Append(@, Flag_to_string(result[1]))]
    /\ input' = Flag_to_string(result[1])
    /\ pc' = "flag"
    /\ UNCHANGED <<pairs, idx, state, directives, result>>

NextFlag == FlagFrom \/ FlagDisplay

-----------------------------------------------------------------------------
\* Inputs.

\* Texts made of at most n lines of a set of lines.
Texts(Lines, n) == {Concat(q) : q \in UNION {[1..k -> Lines] : k \in 0..n}}

\* Lines of the inputs about pushed tags: pushes and pops of two tags, and a
\* transaction with a tag in its header and a tag in its body.
TxnTagged == "2014-05-05 * \"n\" #x\n  #b\n  Assets:Cash  1 USD\n"

TagLines == {"pushtag #a\n", "pushtag #b\n", "poptag #a\n", "poptag #b\n", TxnTagged}

MaxTagLines == 4

TagInputs == Texts(TagLines, MaxTagLines)

\* Inputs about root names: an option between two lines that name accounts,
\* under the default roots and under the roots the options introduce.
OptionLines ==
    {"option \"name_assets\" \"Aktiver\"\n",
     "option \"name_liabilities\" \"Passiver\"\n",
     "option \"name_equity\" \"Egenkapital\"\n",
     "option \"name_income\" \"Indtaegter\"\n",
     "option \"name_expenses\" \"Udgifter\"\n",
     "option \"title\" \"Aktiver\"\n"}

RootTexts ==
    {"Assets", "Liabilities", "Equity", "Income", "Expenses",
     "Aktiver", "Passiver", "Egenkapital", "Indtaegter", "Udgifter"}

AccountLines ==
    {"2014-01-01 close " \o r \o ":Cash\n" : r \in RootTexts}
    \cup {"2014-05-05 * \"n\"\n  " \o r \o ":Cash  1 USD\n" : r \in {"Assets", "Aktiver"}}

RootInputs ==
    {pre \o opt \o post : pre \in AccountLines \cup {""}, opt \in OptionLines,
                          post \in AccountLines \cup {""}}

\* Inputs about transaction bodies: a header, then lines that are key_values
\* or postings; two of the key_values have the same key.
BodyLineTexts ==
    {"  k1: \"v1\"\n", "  k2: 2\n", "  k1: \"v3\"\n",
     "  Assets:Cash  1 USD\n", "  Expenses:Food\n"}

MaxBodyLines == 4

BodyInputs == {"2014-05-05 * \"n\"\n" \o b : b \in Texts(BodyLineTexts, MaxBodyLines)}

\* Inputs about prices: a posting with or without units and with a per-unit
\* price, a total price or none.
UnitTexts == {"", "  5 USD", "  0 USD", "  2.5 USD", "  USD"}

PriceTexts == {"", " @ 2 EUR", " @@ 10 EUR", " @ EUR", " @@ 10", " @@ 0.50 EUR", " @ 1.5 EUR"}

PriceInputs ==
    {"2014-05-05 * \"n\"\n  Assets:Cash" \o u \o p \o "\n" : u \in UnitTexts, p \in PriceTexts}

\* Inputs about numeric expressions: the units of a posting are an expression
\* of two or three operands, with signs and parentheses.
Ops == {"+", "-", "*", "/"}

Exprs2 ==
    {p \o a \o o \o b : p \in {"", "-", "+"}, a \in {"1", "8"}, o \in Ops, b \in {"2", "4", "0"}}

Exprs3 ==
    UNION {{a \o o1 \o b \o o2 \o c,
            a \o " " \o o1 \o " " \o b \o " " \o o2 \o " " \o c,
            "(" \o a \o o1 \o b \o ")" \o o2 \o c,
            a \o o1 \o "(" \o b \o o2 \o c \o ")",
            "-(" \o a \o o1 \o b \o ")" \o o2 \o c,
            a \o o1 \o "-" \o b \o o2 \o c} :
           a \in {"1", "8"}, o1 \in Ops, b \in {"2", "4"}, o2 \in Ops, c \in {"3", "2"}}

ExprInputs ==
    {"2014-05-05 * \"n\"\n  Assets:Cash  " \o e \o " USD\n" : e \in Exprs2 \cup Exprs3}

\* Inputs about costs: a posting with a cost between single or double braces
\* that holds one number, two numbers around '#', a date, a label, a lone
\* asterisk, or nothing.
CostBodies ==
    {"", "2 EUR", "1 # 2 EUR", "1.5 # 20 EUR", "# 2 EUR", "2 # EUR", "EUR", "*", "2 EUR, *",
     "2 EUR, 2014-01-01, \"lot\"", "*, 1 # 2 EUR"}

CostTexts == {"{" \o b \o "}" : b \in CostBodies} \cup {"{{" \o b \o "}}" : b \in CostBodies}

CostInputs ==
    {"2014-05-05 * \"n\"\n  Assets:Cash  " \o u \o c \o "\n" :
        u \in {"", "1 USD "}, c \in CostTexts}

\* Inputs about the places of an account: the account of an open, both
\* accounts of a pad, an account as a metadata value, the account of a second
\* posting; each with a root that is known, unknown, or known once an option
\* has renamed it; after nothing, a comment line, or that option.
PlaceRoots == {"Assets", "Foo", "Aktiver"}

PlaceLines ==
    {"2014-01-01 open " \o a \o ":Cash USD\n" : a \in PlaceRoots}
    \cup {"2014-06-01 pad " \o a \o ":A " \o b \o ":B\n" : a \in PlaceRoots, b \in PlaceRoots}
    \cup {"2014-01-01 close Assets:Cash\n  who: " \o a \o ":Bar\n" : a \in PlaceRoots}
    \cup {"2014-05-05 * \"n\"\n  Assets:Cash  1 USD\n  " \o a \o ":Bar\n" : a \in PlaceRoots}
    \cup {"2014-05-05 * \"n\"\n  who: " \o a \o ":Q\n  " \o b \o ":Bar\n" :
             a \in PlaceRoots, b \in PlaceRoots}

PlaceIntros == {"", "; note\n", "option \"name_assets\" \"Aktiver\"\n"}

PlaceInputs == {pre \o l : pre \in PlaceIntros, l \in PlaceLines}

\* Inputs about the parts of an open: no currency, one, or two; no booking
\* string, a method in capitals, in small letters, with a capital, or an
\* unknown one; no metadata or one key.
OpenCurrencyTexts == {"", " USD", " USD,EUR"}

OpenBookingTexts == {"", " \"STRICT\"", " \"fifo\"", " \"None\"", " \"bogus\""}

OpenInputs ==
    {"2014-05-01 open Liabilities:CreditCard" \o c \o b \o "\n" \o m :
        c \in OpenCurrencyTexts, b \in OpenBookingTexts, m \in {"", "  k1: 1\n"}}

\* Inputs about metadata values: a close with one key whose value is of each
\* kind, the booleans in each capitalization.
KvValueTexts ==
    {"\"value\"", "Assets:Cash", "2019-01-01", "USD", "#foo", "200.00 USD", "200.00"}
    \cup BoolWords

KvInputs == {"2014-01-01 close Assets:Cash\n  key: " \o v \o "\n" : v \in KvValueTexts}

\* Inputs about the parts of the parse state: options that rename roots,
\* one that does not, tag lines and directives between them.
FrameInputs ==
    {"option \"name_assets\" \"Aktiver\"\npushtag #a\n2014-01-01 close Aktiver:Cash\n"
        \o "option \"name_income\" \"Ind\"\npoptag #a\n",
     "pushtag #a\noption \"title\" \"x\"\npushtag #a\noption \"name_equity\" \"Egen\"\n"
        \o "poptag #a\n2014-01-01 close Egen:Cash\npoptag #a\n",
     "pushtag #a\noption \"name_assets\" \"Aktiver\"\n2014-01-01 close Assets:Cash\npoptag #a\n"}

\* Inputs about customs: a name alone, then arguments that are strings, a
\* boolean, a number, an amount, an account; with and without metadata.
CustomArgTexts ==
    {"", " \"opt\"", " \"opt\" TRUE 45.30 USD", " TRUE", " 45.30", " 1 USD", " Assets:Cash",
     " \"a\" \"b\""}

CustomInputs ==
    {"2014-07-09 custom \"budget\"" \o a \o "\n" \o m :
        a \in CustomArgTexts, m \in {"", "  k1: 1\n"}}

\* Inputs about the order of failures: an account with an unknown root and
\* the pop of a tag that is not pushed, before and after each other, with a
\* tag left pushed.
OrderInputs ==
    {"pushtag #a\n2014-01-01 close Foo:Cash\n",
     "pushtag #a\n2014-01-01 close Foo:Cash\npoptag #b\n",
     "pushtag #a\npoptag #b\n2014-01-01 close Foo:Cash\n",
     "pushtag #a\n2014-01-01 close Assets:Cash\npoptag #b\n2014-01-01 close Foo:Cash\n",
     "2014-01-01 close Assets:Cash\npushtag #a\n2014-01-01 close Foo:Cash\npoptag #a\n"}

\* Inputs about roots of the same name: an option that gives a root the
\* name another root has, before an account of that name; and one that
\* gives two roots a new name.
SameNameInputs ==
    {"option \"name_assets\" \"Income\"\n2014-01-01 close Income:Cash\n",
     "option \"name_assets\" \"Income\"\n2014-01-01 close Assets:Cash\n",
     "option \"name_equity\" \"Kap\"\noption \"name_income\" \"Kap\"\n"
        \o "2014-06-01 pad Kap:A Assets:B\n",
     "option \"name_assets\" \"Income\"\noption \"name_assets\" \"Aktiver\"\n"
        \o "2014-01-01 close Income:Cash\n"}

\* Inputs about divisors that are zero: in a price, in a cost, in a number
\* of the metadata and in the units of a posting.
ZeroInputs ==
    {"2014-05-05 * \"n\"\n  Assets:Cash  1 USD @ 1/0 EUR\n",
     "2014-05-05 * \"n\"\n  Assets:Cash  1 USD {1/(2-2) EUR}\n",
     "2014-01-01 close Assets:Cash\n  k1: 1/0\n",
     "2014-05-05 * \"n\"\n  Assets:Cash  2/(1-1) USD\n"}

\* Inputs about headers: a transaction with each flag and one string, two
\* strings, or two strings around a bar, with and without blanks.
HeaderFlags == {"*", "!", "txn", "P", "#"}

HeaderStrings ==
    {"\"N\"", "\"A\" \"B\"", "\"A\" | \"B\"", "\"A\"|\"B\"", "\"A\"\"B\"", "\"\" \"B\"",
     "\"B\" \"\""}

HeaderInputs ==
    {"2014-05-05 " \o f \o " " \o q \o "\n  Assets:Cash  1 USD\n" :
        f \in HeaderFlags, q \in HeaderStrings}

\* Inputs about sources: directives of one and of several lines, with a
\* comment after the header, between empty lines, comment lines and lines
\* that push and pop a tag; the last line may lack its newline.
SourceLines ==
    {"option \"title\" \"x\"\n", "\n", "; c\n",
     "2014-01-01 close Assets:Cash ; c\n  k1: 1\n",
     "pushtag #a\n", "poptag #a\n", TxnTagged}

MaxSourceLines == 3

SourceInputs ==
    Texts(SourceLines, MaxSourceLines)
    \cup {"include \"f\"", "pushtag #a\n2014-01-01 close Assets:Cash\n  k1: 1\npoptag #a"}

ParseInputs ==
    ZeroInputs \cup SameNameInputs \cup OrderInputs \cup CustomInputs \cup FrameInputs \cup KvInputs \cup OpenInputs \cup HeaderInputs \cup SourceInputs \cup TagInputs \cup RootInputs \cup BodyInputs \cup PriceInputs \cup ExprInputs \cup CostInputs
    \cup PlaceInputs

Spec == InitWith(ParseInputs) /\ [][Next]_vars

\* Sources of the conversion test: at most MaxConversionLines of an include,
\* an option, a close with two metadata keys, a transaction with two tags and
\* a link, a plain transaction, a transaction with a key of its own and a
\* key of its posting, a push and a pop.
ConversionLines ==
    {"include \"path/to/include/file.beancount\"\n",
     "option \"title\" \"x\"\n",
     "2014-01-01 close Assets:Cash\n",
     "2014-01-01 close Assets:Cash\n  k1: 1\n  k2: 2014-01-01\n",
     "2014-05-05 * \"n\" #x #y ^l\n  Assets:Cash  1 USD\n",
     "2014-05-05 * \"n\"\n  Assets:Cash  1 USD @ 2 EUR\n",
     "2014-05-05 * \"n\"\n  k1: 1\n  Assets:Cash  1 USD\n  k2: 2\n",
     "pushtag #a\n", "poptag #a\n"}

MaxConversionLines == 2

ConversionInputs == Texts(ConversionLines, MaxConversionLines)

SpecConversion == InitWith(ConversionInputs) /\ [][NextConversion]_vars

\* The directive of a text of one directive.
DirectiveOf(text) ==
    directive(BeancountParser_parse(text).pair.inner[1], ParseState_new(AccountTypes)).val

\* Ledgers to render: at most MaxLedgerLen of an include, an option, a close
\* with two metadata keys, an open, and a directive that is not supported.
LedgerDirectives ==
    {DirectiveOf(l) : l \in {"include \"f\"\n", "option \"title\" \"x\"\n",
                             "2014-01-01 close Assets:Cash\n  k1: 1\n  k2: 2014-01-01\n",
                             "2014-05-01 open Liabilities:CreditCard USD \"fifo\"\n"}}
    \cup {Unsupported}

MaxLedgerLen == 3

RenderLedgers == UNION {[1..k -> LedgerDirectives] : k \in 0..MaxLedgerLen}

SpecRender == InitRender(RenderLedgers) /\ [][NextRender]_vars

\* Inputs of several calls: one that renames a root and uses the new name,
\* one that uses that name without renaming, one that fails with a tag pushed,
\* a transaction followed by a pop of that tag, and one that ends with two
\* tags pushed.
CallInputs ==
    {"option \"name_assets\" \"Aktiver\"\n2014-01-01 open Aktiver:Cash\n",
     "2014-01-01 open Aktiver:Cash\n",
     "pushtag #a\npoptag #b\n",
     "2014-05-05 * \"n\"\n  Assets:Cash  1 USD\npoptag #a\n",
     "pushtag #a\npushtag #b\n"}

OtherInputs ==
    {"option \"name_assets\" \"Aktiver\"\n2014-01-01 open Aktiver:Cash\n",
     "pushtag #a\npoptag #b\n"}

MaxCalls == 3

\* Texts to convert to flags: at most MaxFlagLen of the characters of the
\* flags the conversion knows.
FlagTextChars == {"*", "!", "t", "x", "n"}

MaxFlagLen == 3

FlagTexts == {Concat(q) : q \in UNION {[1..k -> FlagTextChars] : k \in 0..MaxFlagLen}}

SpecFlag == InitFlag(FlagTexts) /\ [][NextFlag]_vars

SpecCalls == InitCalls(CallInputs, OtherInputs, MaxCalls - 2) /\ [][NextCalls]_vars

-----------------------------------------------------------------------------
\* The input as its pairs state it: counts of pushes and pops, the root names
\* in force at a pair, the lines of a body.

IsTagOp(k, rule, t) == pairs[k].rule = rule /\ pairs[k].inner[1].str = "#" \o t

Pushes(t, k) == Cardinality({i \in 1..(k - 1) : IsTagOp(i, "pushtag", t)})

Pops(t, k) == Cardinality({i \in 1..(k - 1) : IsTagOp(i, "poptag", t)})

\* The pushed count of t just before the k-th pair.
Net(t, k) == Pushes(t, k) - Pops(t, k)

InputTags ==
    {Tail(pairs[k].inner[1].str) : k \in {i \in 1..Len(pairs) : pairs[i].rule \in {"pushtag", "poptag"}}}

Balanced ==
    /\ \A k \in 1..Len(pairs) :
         pairs[k].rule = "poptag" => Net(Tail(pairs[k].inner[1].str), k) > 0
    /\ \A t \in InputTags : Net(t, Len(pairs) + 1) = 0

\* Every directive of the input is valid by itself: it is constructed under
\* the default root names in every build, and no option renames a root.
DirectivesValid ==
    \A k \in 1..Len(pairs) :
        pairs[k].rule \notin {"EOI", "pushtag", "poptag"} =>
            LET r == directive(pairs[k], ParseState_new(AccountTypes))
            IN /\ r.ok /\ (r.val.kind = "Option" => root_name_change(r.val) = None)
               /\ ~DebugAssertFails(pairs[k])

\* The first parse of the input has returned, the grammar having accepted it.
Returned == pc = "done" /\ pairs # <<>> /\ harness.stage = 1 /\ result # None

Failed == Returned /\ ~result[1].ok

\* C1: for an input whose directives are valid, parse returns a ledger if and
\* only if the pushtag and poptag lines balance (every poptag meets a positive
\* count of its tag, every count is zero at the end); otherwise it returns an
\* InvalidInput error.
C1_BalanceIffLedger ==
    (Returned /\ DirectivesValid) =>
        /\ result[1].ok <=> Balanced
        /\ result[1].ok => result[1].val = directives
        /\ ~result[1].ok => result[1].err.kind = "InvalidInput"

C1_Witness ==
    /\ Returned /\ DirectivesValid /\ result[1].ok
    /\ \E k \in 1..Len(pairs) : pairs[k].rule = "poptag"
    /\ \E k \in 1..Len(pairs) : pairs[k].rule = "transaction"

\* The pair of the j-th directive.
DirectivePair(j) ==
    CHOOSE k \in 1..Len(pairs) :
        /\ pairs[k].rule \notin {"EOI", "pushtag", "poptag"}
        /\ Cardinality({i \in 1..k : pairs[i].rule \notin {"EOI", "pushtag", "poptag"}}) = j

\* The tags written on a transaction: in its header and on lines of its body.
WrittenTags(pair) ==
    UNION {IF pair.inner[i].rule \in {"tags_links", "eol_posting_or_kv_list"}
           THEN {Tail(pair.inner[i].inner[n].str) :
                    n \in {m \in 1..Len(pair.inner[i].inner) : pair.inner[i].inner[m].rule = "tag"}}
           ELSE {} : i \in 1..Len(pair.inner)}

\* C2: the tag set of every parsed transaction is the union of the tags
\* written on it and the tags whose pushed count is positive where it occurs.
C2_TransactionTags ==
    harness.stage = 1 =>
        \A j \in 1..Len(directives) :
            directives[j].kind = "Transaction" =>
                directives[j].tags =
                    WrittenTags(pairs[DirectivePair(j)])
                    \cup {t \in InputTags : Net(t, DirectivePair(j)) > 0}

\* A transaction after two pushes and one pop of a tag it does not write.
C2_Witness ==
    \E j \in 1..Len(directives) :
        /\ directives[j].kind = "Transaction"
        /\ Pushes("a", DirectivePair(j)) = 2 /\ Pops("a", DirectivePair(j)) = 1
        /\ "a" \in directives[j].tags
        /\ "a" \notin WrittenTags(pairs[DirectivePair(j)])
        /\ "x" \in directives[j].tags

\* The option that names the root of each account type.
RootOption ==
    [Assets |-> "name_assets", Liabilities |-> "name_liabilities", Equity |-> "name_equity",
     Income |-> "name_income", Expenses |-> "name_expenses"]

\* The options before the k-th pair that name the root of the type.
RenamesBefore(ty, k) ==
    {i \in 1..(k - 1) : pairs[i].rule = "option"
                        /\ pairs[i].inner[1].inner[1].str = RootOption[ty]}

\* The root name of the type in force at the k-th pair: the value of the
\* last option before it that names the root, else the name of the type.
NameAt(ty, k) ==
    IF RenamesBefore(ty, k) = {} THEN ty
    ELSE pairs[CHOOSE i \in RenamesBefore(ty, k) : \A l \in RenamesBefore(ty, k) : l <= i]
            .inner[2].inner[1].str

\* The account pairs inside a pair.
RECURSIVE AccountPairs(_)
AccountPairs(p) ==
    IF p.rule = "account" THEN {p}
    ELSE UNION {AccountPairs(p.inner[i]) : i \in 1..Len(p.inner)}

\* The pairs that hold an account whose root is no root name in force.
BadPairs ==
    {k \in 1..Len(pairs) :
        \E a \in AccountPairs(pairs[k]) :
            \A ty \in DOMAIN RootOption : NameAt(ty, k) # a.inner[1].str}

\* The posting pairs of a transaction pair, in source order.
PostingPairs(pair) ==
    SelectSeq(pair.inner[Len(pair.inner)].inner, LAMBDA p : p.rule = "posting")

\* The account pair of a posting pair.
AccountOf(pp) == SelectSeq(pp.inner, LAMBDA p : p.rule = "account")[1]

\* C3: a root renamed by an option holds for the directives after the option
\* only. An account whose first piece is no root name in force where it
\* stands (a new name before its option, a replaced name after it) makes
\* parse fail there with "Invalid root account"; every other account parses
\* with the type whose name in force is its first piece.
C3_RootRenaming ==
    Returned =>
        /\ \A k \in BadPairs : idx <= k
        /\ idx \in BadPairs =>
             ~result[1].ok /\ result[1].err.kind = "InvalidInput"
             /\ result[1].err.message = "Invalid root account"
        /\ (~result[1].ok /\ result[1].err.message = "Invalid root account") => idx \in BadPairs
        /\ \A j \in 1..Len(directives) :
             /\ directives[j].kind = "Close" =>
                  NameAt(directives[j].account.ty, DirectivePair(j))
                      = pairs[DirectivePair(j)].inner[2].inner[1].str
             /\ directives[j].kind = "Transaction" =>
                  \A i \in 1..Len(directives[j].postings) :
                      NameAt(directives[j].postings[i].account.ty, DirectivePair(j))
                          = AccountOf(PostingPairs(pairs[DirectivePair(j)])[i]).inner[1].str

\* An account of the default root before the option and an account of the
\* new root after it have both parsed as Assets.
C3_Witness ==
    /\ Returned /\ result[1].ok /\ Len(directives) = 3
    /\ directives[1].kind = "Close" /\ directives[1].account.ty = "Assets"
    /\ pairs[1].inner[2].inner[1].str = "Assets"
    /\ directives[2].kind = "Option" /\ directives[2].name = "name_assets"
    /\ directives[3].kind = "Close" /\ directives[3].account.ty = "Assets"
    /\ pairs[3].inner[2].inner[1].str = "Aktiver"

\* The lines of the body of a transaction pair.
BodyOf(pair) == pair.inner[Len(pair.inner)].inner

\* The owner of the n-th line of a body: the number of postings before it,
\* zero for the transaction.
Owner(body, n) == Cardinality({i \in 1..n : body[i].rule = "posting"})

\* The metadata of an owner.
MapOf(d, o) == IF o = 0 THEN d.meta ELSE d.postings[o].meta

\* The key_value lines of a body.
KvLinesOf(body) == {n \in 1..Len(body) : body[n].rule = "key_value"}

\* The key_value lines with the key and the owner of the n-th line.
Same(body, n) ==
    {m \in KvLinesOf(body) : body[m].inner[1].str = body[n].inner[1].str
                             /\ Owner(body, m) = Owner(body, n)}

\* The value written on a key_value line of the k-th pair, read under the
\* root names in force there.
ValueOf(p, k) ==
    MetaValue_of(p.inner[2].inner[1],
                 [ParseState_new(AccountTypes) EXCEPT
                     !.root_names = [ty \in DOMAIN RootOption |-> NameAt(ty, k)]]).val

\* C4: in every transaction body, each key_value line before all postings is
\* in the metadata of the transaction, each key_value line after a posting is
\* in the metadata of the last posting before it, and no map holds a key that
\* no line of its owner writes; where lines of one owner write the same key,
\* the map holds the value of one of them. Postings keep their source order.
C4_BodyOwnership ==
    harness.stage = 1 =>
        \A j \in 1..Len(directives) :
            directives[j].kind = "Transaction" =>
                LET d == directives[j]
                    body == BodyOf(pairs[DirectivePair(j)])
                    pps == PostingPairs(pairs[DirectivePair(j)])
                IN /\ Len(d.postings) = Len(pps)
                   /\ \A i \in 1..Len(pps) :
                        d.postings[i].account.parts
                            = [n \in 1..(Len(AccountOf(pps[i]).inner) - 1) |->
                                  Tail(AccountOf(pps[i]).inner[n + 1].str)]
                   /\ \A n \in KvLinesOf(body) :
                        /\ body[n].inner[1].str \in Meta_keys(MapOf(d, Owner(body, n)))
                        /\ \E m \in Same(body, n) :
                             Meta_get(MapOf(d, Owner(body, n)), body[n].inner[1].str)
                                 = ValueOf(body[m], DirectivePair(j))
                   /\ \A o \in 0..Len(d.postings) :
                        \A key \in Meta_keys(MapOf(d, o)) :
                            \E n \in KvLinesOf(body) :
                                body[n].inner[1].str = key /\ Owner(body, n) = o

\* A key before the postings, two postings in their order, and the same key
\* after the second posting.
C4_Witness ==
    /\ Returned /\ result[1].ok /\ Len(directives) = 1
    /\ directives[1].kind = "Transaction"
    /\ Len(directives[1].postings) = 2
    /\ directives[1].postings[1].account.ty = "Expenses"
    /\ directives[1].postings[2].account.ty = "Assets"
    /\ directives[1].meta = {[key |-> "k1", value |-> [Text |-> "v1"]]}
    /\ directives[1].postings[1].meta = {}
    /\ directives[1].postings[2].meta = {[key |-> "k1", value |-> [Text |-> "v3"]]}

\* The pairs of the rule among the inner pairs of a pair.
Inner(pair, rule) == SelectSeq(pair.inner, LAMBDA p : p.rule = rule)

\* The incomplete amount as written: the number read digit by digit, the
\* currency as it stands.
Written(ia) ==
    [num |-> IF Inner(ia, "num_expr") = <<>> THEN None
             ELSE Some(Decimal_from_str(Inner(ia, "num_expr")[1].str)),
     currency |-> IF Inner(ia, "commodity") = <<>> THEN None
                  ELSE Some(Inner(ia, "commodity")[1].str)]

\* The price the annotation of a posting pair states.
PriceWritten(pp) ==
    IF Inner(pp, "price_annotation") = <<>> THEN None
    ELSE LET a == Inner(pp, "price_annotation")[1].inner[1]
         IN IF a.rule = "price_annotation_total" THEN Some([Total |-> Written(a.inner[1])])
            ELSE Some([PerUnit |-> Written(a.inner[1])])

\* C7: the price of every posting is the one its annotation states: '@'
\* gives PerUnit and '@@' gives Total of exactly the amount written after the
\* marker, whatever the units of the posting; without annotation, no price.
C7_PriceAsWritten ==
    harness.stage = 1 =>
        \A j \in 1..Len(directives) :
            directives[j].kind = "Transaction" =>
                \A i \in 1..Len(directives[j].postings) :
                    directives[j].postings[i].price
                        = PriceWritten(PostingPairs(pairs[DirectivePair(j)])[i])

\* Five units at a total price of ten.
C7_Witness ==
    /\ Returned /\ result[1].ok /\ Len(directives) = 1
    /\ directives[1].kind = "Transaction" /\ Len(directives[1].postings) = 1
    /\ directives[1].postings[1].units = [num |-> Some(Decimal(5, 0)), currency |-> Some("USD")]
    /\ directives[1].postings[1].price
         = Some([Total |-> [num |-> Some(Decimal(10, 0)), currency |-> Some("EUR")]])

\* The text of the expression of the units of a posting pair, if any.
UnitsExpr(pp) ==
    IF Inner(pp, "incomplete_amount") = <<>> THEN None
    ELSE IF Inner(Inner(pp, "incomplete_amount")[1], "num_expr") = <<>> THEN None
    ELSE Some(Inner(Inner(pp, "incomplete_amount")[1], "num_expr")[1].str)

\* The texts of the unit expressions of the pair parse stands at.
ExprsAt(k) ==
    IF pairs[k].rule # "transaction" THEN {}
    ELSE {UnitsExpr(PostingPairs(pairs[k])[i])[1] :
             i \in {n \in 1..Len(PostingPairs(pairs[k])) :
                       UnitsExpr(PostingPairs(pairs[k])[n]) # None}}

\* The num_expr pairs within a pair, the pair itself included.
RECURSIVE NumExprsIn(_)
NumExprsIn(p) ==
    (IF p.rule = "num_expr" THEN {p} ELSE {})
    \cup UNION {NumExprsIn(p.inner[i]) : i \in 1..Len(p.inner)}

\* The expressions of a pair in which a divisor is zero.
ZeroDivisors(p) == {e \in NumExprsIn(p) : ~StdValue(e.str).ok}

\* C8: the number of units of every posting is the value of the standard
\* reading of the expression written (parentheses first, then signs, then
\* * and /, then + and -, equal precedence from the left), and parse does
\* not stop on an expression that has such a value.
C8_StandardReading ==
    harness.stage = 1 =>
        /\ \A j \in 1..Len(directives) :
             directives[j].kind = "Transaction" =>
                 \A i \in 1..Len(directives[j].postings) :
                     LET e == UnitsExpr(PostingPairs(pairs[DirectivePair(j)])[i])
                         n == directives[j].postings[i].units.num
                     IN IF e = None THEN n = None
                        ELSE /\ n # None
                             /\ StdValue(e[1]).ok
                             /\ Decimal_eq(n[1], StdValue(e[1]).val)
        /\ (Failed /\ result[1].err.kind = "panic"
            /\ result[1].err.message = "Division by zero") =>
               ZeroDivisors(pairs[idx]) # {}

\* The four expressions of the statement, one per input.
C8_Witness ==
    /\ Returned /\ result[1].ok /\ Len(directives) = 1
    /\ directives[1].kind = "Transaction" /\ Len(directives[1].postings) = 1
    /\ LET e == UnitsExpr(PostingPairs(pairs[1])[1])
           n == directives[1].postings[1].units.num[1]
       IN \/ e = Some("1-2-3") /\ n = Decimal(-4, 0)
          \/ e = Some("8/4/2") /\ Decimal_eq(n, Decimal(1, 0))
          \/ e = Some("-1+2") /\ n = Decimal(1, 0)
          \/ e = Some("1+2*3") /\ n = Decimal(7, 0)

\* The position in the input of a line and column.
LineStarts == {1} \cup {i + 1 : i \in {j \in 1..Len(input) : CharAt(input, j) = "\n"}}

OffsetOf(at) ==
    (CHOOSE i \in LineStarts : Cardinality({j \in LineStarts : j < i}) = at[1] - 1)
    + at[2] - 1

\* C9: a poptag of a tag absent from the multiset leaves the multiset as it
\* is, and parse returns the InvalidInput error "Attempting to pop absent
\* tag: 'X'", located where the poptag line starts.
C9_PopAbsent ==
    [][(pc = "loop" /\ idx <= Len(pairs) /\ pairs[idx].rule = "poptag"
        /\ Tail(pairs[idx].inner[1].str) \notin DOMAIN state.pushed_tags)
       => /\ pop_tag(state, Tail(pairs[idx].inner[1].str)).res
               = Err("Attempting to pop absent tag: '" \o Tail(pairs[idx].inner[1].str) \o "'")
          /\ state'.pushed_tags = state.pushed_tags
          /\ pc' = "done"
          /\ result' # None /\ ~result'[1].ok
          /\ result'[1].err.kind = "InvalidInput"
          /\ result'[1].err.message
               = "Attempting to pop absent tag: '" \o Tail(pairs[idx].inner[1].str) \o "'"
          /\ result'[1].err.location[2] = 1
          /\ LitAt(input, OffsetOf(result'[1].err.location), pairs[idx].str)]_vars

\* A pop of b has failed while a was pushed.
C9_Witness ==
    /\ Failed
    /\ result[1].err.message = "Attempting to pop absent tag: 'b'"
    /\ result[1].err.location[1] > 1
    /\ DOMAIN state.pushed_tags = {"a"}

\* C10: when the end of the input is reached with tags still pushed, parse
\* returns an InvalidInput error whose message is "Unbalanced pushed tag(s): "
\* and then every tag with a positive count, quoted, once, separated by ", ".
C10_UnbalancedAtEnd ==
    (Returned /\ idx <= Len(pairs) /\ pairs[idx].rule = "EOI"
     /\ {t \in InputTags : Net(t, idx) > 0} # {}) =>
        /\ ~result[1].ok
        /\ result[1].err.kind = "InvalidInput"
        /\ \E keys \in Perms({t \in InputTags : Net(t, idx) > 0}) :
             result[1].err.message =
                 "Unbalanced pushed tag(s): "
                 \o Join([i \in 1..Len(keys) |-> "'" \o keys[i] \o "'"], ", ")

\* Two tags are left, one pushed twice, while a third count is back to zero.
C10_Witness ==
    /\ Failed /\ idx <= Len(pairs) /\ pairs[idx].rule = "EOI"
    /\ result[1].err.message = "Unbalanced pushed tag(s): 'b', 'a'"
    /\ Pushes("a", idx) = 2

\* C5: in the conversion test the rendered text parses, and its ledger
\* equals the ledger of the source.
C5_RoundTrip ==
    /\ harness.stage # 0
    /\ (harness.stage = 2 /\ pc = "done") =>
           result[1].ok /\ Ledger_eq(result[1].val, harness.ledgers[1])

\* C6: the text rendered from the ledger of the rendered text is, byte for
\* byte, the rendered text.
C6_RenderFixedPoint ==
    /\ (harness.stage = 2 /\ pc = "done") => result[1].ok
    /\ harness.stage = 3 => harness.texts[2] = harness.texts[1]

-----------------------------------------------------------------------------
\* Costs as the pairs state them.

\* The cost_spec pair of a posting pair, if any.
CostOf(pp) == Inner(pp, "cost_spec")

\* The compound amount of a cost_spec pair that the constructor keeps: the
\* last one written.
CompoundsOf(cp) == Inner(cp.inner[1], "compound_amount")

LastCompound(cp) == CompoundsOf(cp)[Len(CompoundsOf(cp))]

\* The cost is written between double braces.
IsTotalSyntax(cp) == cp.inner[1].rule = "cost_spec_total"

\* The numbers written in a compound amount pair, read digit by digit.
NumbersOf(ca) ==
    [k \in 1..Len(Inner(ca, "num_expr")) |-> Decimal_from_str(Inner(ca, "num_expr")[k].str)]

\* A posting pair with total-cost braces around a per-unit and a total number.
TotalWithBoth(pp) ==
    /\ CostOf(pp) # <<>>
    /\ IsTotalSyntax(CostOf(pp)[1])
    /\ CompoundsOf(CostOf(pp)[1]) # <<>>
    /\ Len(NumbersOf(LastCompound(CostOf(pp)[1]))) = 2

\* The top-level pairs that hold such a posting.
TotalWithBothPairs ==
    {k \in 1..Len(pairs) :
        /\ pairs[k].rule = "transaction"
        /\ \E i \in 1..Len(PostingPairs(pairs[k])) : TotalWithBoth(PostingPairs(pairs[k])[i])}

\* C11: a posting whose cost is written between double braces and holds both
\* a per-unit and a total number (PER # TOTAL) makes parse return an error
\* value with the message "Per-unit cost may not be specified using total
\* cost"; parse does not panic and returns no ledger.
C11_TotalCostBothIsError ==
    Returned =>
        /\ \A k \in TotalWithBothPairs : idx <= k
        /\ idx \in TotalWithBothPairs =>
             /\ ~result[1].ok
             /\ result[1].err.kind # "panic"
             /\ result[1].err.message = "Per-unit cost may not be specified using total cost"

\* The numbers and the merge mark of a constructed cost are those its pair
\* writes.
CostAsWritten(cp, c) ==
    /\ c.merge_cost <=> (Inner(cp.inner[1], "asterisk") # <<>>)
    /\ CompoundsOf(cp) = <<>> => c.number_per = None /\ c.number_total = None
    /\ CompoundsOf(cp) # <<>> =>
         LET ca == LastCompound(cp)
             ns == NumbersOf(ca)
             hash == IndexOf(ca.str, "#", 1) # 0
         IN CASE Len(ns) = 1 /\ ~hash ->
                   IF IsTotalSyntax(cp)
                   THEN c.number_per = None /\ c.number_total = Some(ns[1])
                   ELSE c.number_per = Some(ns[1]) /\ c.number_total = None
              [] Len(ns) = 2 ->
                   ~IsTotalSyntax(cp)
                   /\ c.number_per = Some(ns[1]) /\ c.number_total = Some(ns[2])
              [] OTHER -> TRUE

\* C12: in every parsed posting with a cost, the number of {{ N CUR }} is in
\* number_total and number_per is empty; the number of { N CUR } is in
\* number_per and number_total is empty; { P # T CUR } gives number_per = P
\* and number_total = T; merge_cost is true exactly when a lone asterisk is
\* among the components. A posting without braces has no cost.
C12_CostNumbers ==
    harness.stage = 1 =>
        \A j \in 1..Len(directives) :
            directives[j].kind = "Transaction" =>
                \A i \in 1..Len(directives[j].postings) :
                    LET pp == PostingPairs(pairs[DirectivePair(j)])[i]
                        c == directives[j].postings[i].cost
                    IN IF CostOf(pp) = <<>> THEN c = None
                       ELSE c # None /\ CostAsWritten(CostOf(pp)[1], c[1])

\* A total cost of 2 EUR with a merge mark has been constructed.
C12_Witness ==
    /\ Returned /\ result[1].ok /\ Len(directives) = 1
    /\ directives[1].kind = "Transaction" /\ Len(directives[1].postings) = 1
    /\ pairs[1].rule = "transaction"
    /\ CostOf(PostingPairs(pairs[1])[1]) # <<>>
    /\ IsTotalSyntax(CostOf(PostingPairs(pairs[1])[1])[1])
    /\ directives[1].postings[1].cost
         = Some([number_per |-> None, number_total |-> Some(Decimal(2, 0)),
                 currency |-> Some("EUR"), date |-> None, label |-> None,
                 merge_cost |-> TRUE])

-----------------------------------------------------------------------------
\* Accounts in every place.

\* The account pairs of the k-th pair whose root is no root name in force.
BadAccounts(k) ==
    {a \in AccountPairs(pairs[k]) : \A ty \in DOMAIN RootOption : NameAt(ty, k) # a.inner[1].str}

\* The order of lines and columns.
Before(p, q) == p[1] < q[1] \/ (p[1] = q[1] /\ p[2] <= q[2])

\* The first of them in the text.
FirstBad(k) == CHOOSE a \in BadAccounts(k) : \A b \in BadAccounts(k) : Before(a.at, b.at)

\* The text holds the other text.
Contains(s, sub) == \E i \in 1..(Len(s) - Len(sub) + 1) : LitAt(s, i, sub)

-----------------------------------------------------------------------------
\* Headers as the text states them.

\* The first line of the text of a pair.
HeaderOf(pair) ==
    LET nl == IndexOf(pair.str, "\n", 1)
    IN IF nl = 0 THEN pair.str ELSE Slice(pair.str, 1, nl)

\* The positions of the double quotes of a text, and the n-th of them.
QuotesOf(h) == {i \in 1..Len(h) : CharAt(h, i) = "\""}

NthQuote(h, n) == CHOOSE i \in QuotesOf(h) : Cardinality({k \in QuotesOf(h) : k < i}) = n - 1

\* The n-th quoted string of a text without escapes.
StringOf(h, n) == Slice(h, NthQuote(h, 2 * n - 1) + 1, NthQuote(h, 2 * n))

\* C14: a transaction whose header writes one quoted string has no payee
\* and that string as narration; a header that writes two quoted strings,
\* with or without a bar between them, has the first as payee and the second
\* as narration.
C14_PayeeNarration ==
    harness.stage = 1 =>
        \A j \in 1..Len(directives) :
            directives[j].kind = "Transaction" =>
                LET h == HeaderOf(pairs[DirectivePair(j)])
                    d == directives[j]
                IN /\ Cardinality(QuotesOf(h)) \in {2, 4}
                   /\ Cardinality(QuotesOf(h)) = 2 =>
                        d.payee = None /\ d.narration = StringOf(h, 1)
                   /\ Cardinality(QuotesOf(h)) = 4 =>
                        d.payee = Some(StringOf(h, 1)) /\ d.narration = StringOf(h, 2)

\* The header "A" | "B" has given the payee A and the narration B.
C14_Witness ==
    /\ Returned /\ result[1].ok /\ Len(directives) = 1
    /\ directives[1].kind = "Transaction"
    /\ Contains(HeaderOf(pairs[1]), "\"A\" | \"B\"")
    /\ directives[1].payee = Some("A") /\ directives[1].narration = "B"

-----------------------------------------------------------------------------
\* Sources as regions of the input.

\* The region of the k-th pair: where it starts, and where it ends.
StartOf(k) == OffsetOf(pairs[k].at)

EndOf(k) == StartOf(k) + Len(pairs[k].str)

\* The lines of the region from b to e that start inside it, after the first.
LaterLines(b, e) == {i \in (b + 1)..(e - 1) : CharAt(input, i - 1) = "\n"}

-----------------------------------------------------------------------------
\* Open directives.

\* The pair has a child of the rule.
HasChild(pair, rule) == \E i \in 1..Len(pair.inner) : pair.inner[i].rule = rule

\* The open directive read from the rendering of an open directive.
OpenAgain(d, rank) ==
    open_directive(BeancountParser_parse(Open_render(d, rank)).pair.inner[1],
                   ParseState_new(AccountTypes))

\* C16: an open directive written without a booking string is parsed with
\* booking Strict, with an empty currency list where no currency is written
\* and empty metadata where no key is written; the open read from its
\* rendering (a list of at most one currency is rendered as it is written)
\* has the same booking.
C16_OpenDefaults ==
    harness.stage = 1 =>
        \A j \in 1..Len(directives) :
            directives[j].kind = "Open" =>
                LET p == pairs[DirectivePair(j)]
                    d == directives[j]
                IN /\ ~HasChild(p, "quoted_str") => d.booking = Some("Strict")
                   /\ ~HasChild(p, "commodity_list") => d.currencies = <<>>
                   /\ p.inner[Len(p.inner)].inner = <<>> => d.meta = Meta_new
                   /\ (~HasChild(p, "quoted_str") /\ Len(d.currencies) <= 1) =>
                        \A rank \in Perms(MetaNames(d)) :
                            /\ OpenAgain(d, rank).ok
                            /\ OpenAgain(d, rank).val.booking = d.booking

\* The same, with the booking open_directive stores where no string is
\* written.
OpenDefaultsAsBuilt ==
    harness.stage = 1 =>
        \A j \in 1..Len(directives) :
            directives[j].kind = "Open" =>
                LET p == pairs[DirectivePair(j)]
                    d == directives[j]
                IN /\ ~HasChild(p, "quoted_str") => d.booking = None
                   /\ ~HasChild(p, "commodity_list") => d.currencies = <<>>
                   /\ p.inner[Len(p.inner)].inner = <<>> => d.meta = Meta_new
                   /\ (~HasChild(p, "quoted_str") /\ Len(d.currencies) <= 1) =>
                        \A rank \in Perms(MetaNames(d)) :
                            /\ OpenAgain(d, rank).ok
                            /\ OpenAgain(d, rank).val.booking = d.booking

-----------------------------------------------------------------------------
\* Rendering a ledger.

\* A caller's render has returned.
Rendered == pc = "rendered" /\ result # None

\* The places of the ledger that hold a directive that is not supported.
UnsupportedAt(ledger) == {i \in 1..Len(ledger) : ledger[i] = Unsupported}

\* The number of directives before the first that is not supported.
RenderedCount(ledger) ==
    IF UnsupportedAt(ledger) = {} THEN Len(ledger)
    ELSE (CHOOSE i \in UnsupportedAt(ledger) : \A k \in UnsupportedAt(ledger) : i <= k) - 1

\* C17: with a writer that never fails, render returns an error if and only
\* if the ledger holds a directive that is not supported, and the error is
\* Unsupported; the writer has received the renderings of the directives
\* before the first such directive, in the order of the ledger, each followed
\* by an empty line, and nothing else.
C17_RenderUnsupported ==
    Rendered =>
        LET ledger == harness.ledgers[1]
        IN /\ ~result[1].ok <=> UnsupportedAt(ledger) # {}
           /\ ~result[1].ok => result[1].err = "Unsupported"
           /\ \E rank \in Perms(LedgerNames(ledger)) :
                harness.texts[1] =
                    Concat([i \in 1..RenderedCount(ledger) |->
                               Directive_render(ledger[i], rank).val \o "\n"])

\* A ledger of a close, a directive that is not supported and an include has
\* been rendered: the writer holds the close.
C17_Witness ==
    /\ Rendered /\ ~result[1].ok
    /\ Len(harness.ledgers[1]) = 3
    /\ harness.ledgers[1][1].kind = "Close"
    /\ harness.ledgers[1][2] = Unsupported
    /\ harness.ledgers[1][3].kind = "Include"
    /\ harness.texts[1] = "2014-01-01 close Assets:Cash\n\tk2: 2014-01-01\n\tk1: 1\n\n"

-----------------------------------------------------------------------------
\* Metadata values.

\* The variant of MetaValue that the rule of a value token selects.
VariantOf(rule) ==
    CASE rule = "quoted_str" -> "Text"
      [] rule = "account" -> "Account"
      [] rule = "date" -> "Date"
      [] rule = "commodity" -> "Currency"
      [] rule = "tag" -> "Tag"
      [] rule = "bool" -> "Bool"
      [] rule = "amount" -> "Amount"
      [] rule = "num_expr" -> "Number"

\* The key_value pairs of a close pair.
KeyValuesOf(pair) == pair.inner[Len(pair.inner)].inner

\* C18: the value of a key_value is stored as the variant its token's rule
\* selects, and for a boolean token the stored bool is true exactly when the
\* token is the true literal, in any capitalization the grammar accepts.
C18_ValueVariants ==
    harness.stage = 1 =>
        \A j \in 1..Len(directives) :
            directives[j].kind = "Close" =>
                \A n \in 1..Len(KeyValuesOf(pairs[DirectivePair(j)])) :
                    LET kv == KeyValuesOf(pairs[DirectivePair(j)])[n]
                        vp == kv.inner[2].inner[1]
                    IN \E e \in directives[j].meta :
                         /\ e.key = kv.inner[1].str
                         /\ DOMAIN e.value = {VariantOf(vp.rule)}
                         /\ vp.rule = "bool" => (e.value.Bool <=> Lowercase(vp.str) = "true")

-----------------------------------------------------------------------------
\* Calls of parse.

\* The calls that have returned: those the caller has kept, the running call
\* and the other call where they have returned.
ReturnedCalls ==
    {harness.calls[i] : i \in 1..Len(harness.calls)}
    \cup (IF pc = "done" /\ pairs # <<>>
          THEN {[input |-> input, order |-> state.order, result |-> result[1]]} ELSE {})
    \cup (IF harness.other.pc = "done"
          THEN {[input |-> harness.other.input, order |-> harness.other.state.order,
                 result |-> harness.other.result[1]]} ELSE {})

\* A call about to look at its first pair has the five canonical root names
\* and no tag.
StartsFresh(c) ==
    (c.pc = "loop" /\ c.idx = 1) =>
        /\ c.state.root_names = [ty \in DOMAIN c.state.root_names |-> default_name(ty)]
        /\ DOMAIN c.state.root_names = {"Assets", "Liabilities", "Equity", "Income", "Expenses"}
        /\ DOMAIN c.state.pushed_tags = {}

\* The error of an input that ends with the tags T pushed, the tags in some
\* order.
UnbalancedErrors(r, T) ==
    {[r EXCEPT !.err.message = "Unbalanced pushed tag(s): " \o Join(Quoted(keys), ", ")] :
        keys \in Perms(T)}

\* Two results that differ at most in the order in which an error lists the
\* tags still pushed.
SameOutcome(r, q) ==
    \/ r = q
    \/ /\ ~r.ok /\ ~q.ok
       /\ \E T \in SUBSET {"a", "b"} : q \in UnbalancedErrors(r, T) /\ r \in UnbalancedErrors(r, T)

\* C19 as stated: the result of parse(s) depends only on s.
C19_ResultOfInputAlone ==
    harness.stage = 4 =>
        \A c \in ReturnedCalls : \A d \in ReturnedCalls :
            c.input = d.input => c.result = d.result

\* C19, amended: every call starts with the five canonical root names and no
\* tag, whatever an earlier call (returned with a ledger or failed midway) or
\* an interleaved call has renamed or pushed; the result of parse(s) depends
\* only on s and on the order in which the call's own hash maps are iterated.
C19_CallsIsolated ==
    harness.stage = 4 =>
        /\ StartsFresh([pc |-> pc, idx |-> idx, state |-> state])
        /\ StartsFresh(harness.other)
        /\ \A c \in ReturnedCalls : \A d \in ReturnedCalls :
             (c.input = d.input /\ c.order = d.order) => SameOutcome(c.result, d.result)

\* After a call that renamed Assets returned a ledger, and interleaved with a
\* call that failed with a tag pushed, a call on the new name has failed.
C19_Witness ==
    /\ harness.stage = 4 /\ Len(harness.calls) = 1
    /\ harness.calls[1].result.ok /\ harness.calls[1].result.val[1].kind = "Option"
    /\ harness.other.pc = "done" /\ ~harness.other.result[1].ok
    /\ DOMAIN harness.other.state.pushed_tags = {"a"}
    /\ pc = "done" /\ input = "2014-01-01 open Aktiver:Cash\n"
    /\ ~result[1].ok /\ result[1].err.kind = "InvalidInput"

-----------------------------------------------------------------------------
\* Flags.

\* The text the i-th flag was made of: the first text, then the texts
\* displayed.
FlagText(i) == IF i = 1 THEN harness.source ELSE harness.texts[i - 1]

\* C20: Flag::from(s) is Okay exactly when s is "*" or "txn", Warning exactly
\* when s is "!", and Other(s) for every other s, so that Other never holds
\* "*", "txn" or "!"; the flag made of the displayed text of a flag that
\* Flag::from made is the same flag.
C20_FlagFrom ==
    harness.stage = 5 =>
        /\ \A i \in 1..Len(harness.flags) :
             LET f == harness.flags[i]
                 s == FlagText(i)
             IN /\ f.flag \in {"Okay", "Warning", "Other"}
                /\ f.flag = "Okay" <=> s \in {"*", "txn"}
                /\ f.flag = "Warning" <=> s = "!"
                /\ f.flag = "Other" => f.s = s /\ f.s \notin {"*", "txn", "!"}
        /\ \A i \in 2..Len(harness.flags) : harness.flags[i] = harness.flags[i - 1]

\* The flag of txn has been displayed as a star and made again of the star.
C20_Witness ==
    /\ harness.stage = 5 /\ harness.source = "txn"
    /\ Len(harness.flags) = 2 /\ harness.flags[1].flag = "Okay"
    /\ harness.texts[1] = "*" /\ harness.flags[2].flag = "Okay"

-----------------------------------------------------------------------------
\* Rendering an include.

\* The directives of a text, read with the default root names.
DirectivesOf(text) ==
    LET ps == BeancountParser_parse(text).pair.inner
    IN  [k \in 1..(Len(ps) - 1) |-> directive(ps[k], ParseState_new(AccountTypes))]

\* C21: an include of the file F is rendered as the line include "F", the
\* name between two double quotes, followed by a newline; the grammar accepts
\* the rendered line and it is read as an include of F.
C21_IncludeRendered ==
    Rendered =>
        LET ledger == harness.ledgers[1]
        IN (ledger # <<>> /\ \A i \in 1..Len(ledger) : ledger[i].kind = "Include") =>
               /\ result[1].ok
               /\ harness.texts[1] =
                      Concat([i \in 1..Len(ledger) |->
                                 "include \"" \o ledger[i].filename \o "\"\n\n"])
               /\ BeancountParser_parse(harness.texts[1]).ok
               /\ Len(DirectivesOf(harness.texts[1])) = Len(ledger)
               /\ \A i \in 1..Len(ledger) :
                    /\ DirectivesOf(harness.texts[1])[i].ok
                    /\ DirectivesOf(harness.texts[1])[i].val.kind = "Include"
                    /\ DirectivesOf(harness.texts[1])[i].val.filename = ledger[i].filename

-----------------------------------------------------------------------------
\* Rendering a transaction.

\* The header line of a transaction with the sigils of its tags and links,
\* the sets written in the order of rank.
HeaderText(t, rank) ==
    t.date \o " " \o Flag_to_string(t.flag)
    \o (IF t.payee # None THEN " \"" \o t.payee[1] \o "\"" ELSE "")
    \o " \"" \o t.narration \o "\""
    \o Concat([i \in 1..Len(Ranked(t.tags, rank)) |-> " #" \o Ranked(t.tags, rank)[i]])
    \o Concat([i \in 1..Len(Ranked(t.links, rank)) |-> " ^" \o Ranked(t.links, rank)[i]])
    \o "\n"

\* The lines after the header: each posting, in the order of the postings, on
\* a line that starts with a tab, then the metadata of the transaction.
BodyText(t, rank) ==
    Concat([i \in 1..Len(t.postings) |-> Posting_render(t.postings[i], rank)])
    \o render_key_value(t.meta, rank)

\* C22: a transaction is rendered as its header line, DATE FLAG ["PAYEE"]
\* "NARRATION" followed by each tag as #tag and each link as ^link, then each
\* posting on its own line after a tab, in the order of the postings, then
\* the metadata of the transaction; the transaction read from the rendered
\* text has the same tags and the same links.
C22_TransactionRendered ==
    (/\ harness.stage = 2
     /\ Len(harness.ledgers[1]) = 1
     /\ harness.ledgers[1][1].kind = "Transaction") =>
        LET t == harness.ledgers[1][1]
        IN /\ \E rank \in Perms(MetaNames(t)) :
                harness.texts[1] = HeaderText(t, rank) \o BodyText(t, rank) \o "\n"
           /\ (pc = "done" /\ result # None) =>
                /\ result[1].ok /\ Len(result[1].val) = 1
                /\ result[1].val[1].kind = "Transaction"
                /\ result[1].val[1].tags = t.tags
                /\ result[1].val[1].links = t.links

\* The same for the transactions that have neither tag nor link.
TransactionRenderedPlain ==
    (/\ harness.stage = 2
     /\ Len(harness.ledgers[1]) = 1
     /\ harness.ledgers[1][1].kind = "Transaction"
     /\ harness.ledgers[1][1].tags = {} /\ harness.ledgers[1][1].links = {}) =>
        C22_TransactionRendered

-----------------------------------------------------------------------------
\* The parts of the parse state.

\* The types whose root name a step changes.
RenamedTypes == {ty \in DOMAIN state.root_names : state'.root_names[ty] # state.root_names[ty]}

\* C23: a pushtag or poptag line changes the tag multiset only: it appends
\* no directive and leaves the root names as they are. A directive appends
\* one entry, its own, at the end of the ledger and leaves the tag multiset
\* as it is. The table of root names has the five account types as keys, and
\* only an option named name_assets, name_liabilities, name_equity,
\* name_income or name_expenses changes it, in the entry of that type only.
C23_Frame ==
    [][(harness.stage = 1 /\ pc = "loop" /\ idx <= Len(pairs)) =>
          /\ DOMAIN state.root_names = {"Assets", "Liabilities", "Equity", "Income", "Expenses"}
          /\ DOMAIN state'.root_names = DOMAIN state.root_names
          /\ pairs[idx].rule \in {"pushtag", "poptag"} =>
                /\ directives' = directives
                /\ RenamedTypes = {}
          /\ pairs[idx].rule \notin {"pushtag", "poptag", "EOI"} =>
                /\ state'.pushed_tags = state.pushed_tags
                /\ pc' = "loop" =>
                      /\ Len(directives') = Len(directives) + 1
                      /\ SubSeq(directives', 1, Len(directives)) = directives
                      /\ directives'[Len(directives')].source = Some(pairs[idx].str)
                /\ pc' # "loop" => directives' = directives /\ RenamedTypes = {}
                /\ \A ty \in RenamedTypes :
                      /\ pairs[idx].rule = "option"
                      /\ directives'[Len(directives')].name = RootOption[ty]
                      /\ directives'[Len(directives')].val = state'.root_names[ty]
                /\ Cardinality(RenamedTypes) <= 1
          /\ pairs[idx].rule = "EOI" =>
                /\ directives' = directives /\ state' = state]_vars

\* Two options have renamed Assets and Income, a directive was read while a
\* tag was pushed, and the tag has been popped.
C23_Witness ==
    /\ Returned /\ result[1].ok /\ Len(directives) = 3
    /\ state.root_names["Assets"] = "Aktiver" /\ state.root_names["Income"] = "Ind"
    /\ state.root_names["Equity"] = "Equity"
    /\ pairs[2].rule = "pushtag" /\ pairs[5].rule = "poptag"
    /\ DOMAIN state.pushed_tags = {}

-----------------------------------------------------------------------------
\* C24. Calls of push_tag and pop_tag on one ParseState, as the tests
\* test_push, test_pop and test_iter make them, with a count of the calls kept
\* beside the state.

TagNames == {"a", "b"}

\* The state after k pushes of a tag on a new state, k below the limit of the
\* count.
PushedTimes(tag, k) ==
    [ParseState_new(AccountTypes) EXCEPT !.pushed_tags =
        [t \in (IF k = 0 THEN {} ELSE {tag}) |-> k]]

\* The sequences of calls start from a new state, or from the state that
\* U16 - 2 pushes of "a" leave.
TagStarts == {0, U16 - 2}

MaxTagCalls == 5

InitTags ==
    /\ input = ""
    /\ pc = "tags"
    /\ pairs = <<>>
    /\ idx = 1
    /\ \E k \in TagStarts :
         /\ state = PushedTimes("a", k)
         /\ harness = [stage |-> 6,
                       pushes |-> [t \in TagNames |-> IF t = "a" THEN k ELSE 0],
                       pops |-> [t \in TagNames |-> 0],
                       failed |-> 0,
                       last |-> None,
                       calls |-> 0]
    /\ directives = <<>>
    /\ result = None

\* One call of push_tag. The addition on the 16-bit count overflows when the
\* count is U16 - 1: a build with overflow checks panics, a build without
\* them wraps the count to zero.
PushTag ==
    /\ pc = "tags" /\ harness.calls < MaxTagCalls
    /\ \E tag \in TagNames :
         LET overflows == tag \in DOMAIN state.pushed_tags
                          /\ state.pushed_tags[tag] = U16 - 1
             counted == [harness EXCEPT !.pushes[tag] = @ + 1, !.calls = @ + 1,
                                        !.last = None]
         IN \/ /\ state' = push_tag(state, tag)
               /\ harness' = counted
               /\ UNCHANGED <<pc, result>>
            \/ /\ overflows
               /\ result' = Some(Panic("attempt to add with overflow"))
               /\ pc' = "panicked"
               /\ harness' = counted
               /\ UNCHANGED state
    /\ UNCHANGED <<input, pairs, idx, directives>>

\* One call of pop_tag; its result is kept with whether the tag was a key.
PopTag ==
    /\ pc = "tags" /\ harness.calls < MaxTagCalls
    /\ \E tag \in TagNames :
         \E r \in {pop_tag(state, tag)} :
           /\ state' = r.st
           /\ harness' = [harness EXCEPT
                            !.pops[tag] = IF r.res.ok THEN @ + 1 ELSE @,
                            !.failed = IF r.res.ok THEN @ ELSE @ + 1,
                            !.calls = @ + 1,
                            !.last = Some([tag |-> tag, ok |-> r.res.ok,
                                           key |-> tag \in get_pushed_tags(state)])]
    /\ UNCHANGED <<input, pc, pairs, idx, directives, result>>

\* The end of the input: the parse succeeds when no tag is left pushed.
EndTags ==
    /\ pc = "tags"
    /\ result' = IF get_pushed_tags(state) # {}
                 THEN Some(Err("Unbalanced pushed tag(s)"))
                 ELSE Some(Ok(directives))
    /\ pc' = "ended"
    /\ UNCHANGED <<input, pairs, idx, state, directives, harness>>

NextTags == PushTag \/ PopTag \/ EndTags

SpecTags == InitTags /\ [][NextTags]_vars

\* The pushes of a tag that no pop has undone.
Outstanding(X) == harness.pushes[X] - harness.pops[X]

\* The counts of a state agree with the calls made.
CountsAgree ==
    /\ \A X \in TagNames :
         /\ X \in DOMAIN state.pushed_tags <=> Outstanding(X) > 0
         /\ X \in DOMAIN state.pushed_tags => state.pushed_tags[X] = Outstanding(X)
    /\ get_pushed_tags(state) = {X \in TagNames : Outstanding(X) > 0}
    /\ harness.last # None => (harness.last[1].ok <=> harness.last[1].key)

\* C24: after any sequence of pushes and pops, a tag is a key exactly when
\* its pushes outnumber its successful pops, its count is that difference,
\* get_pushed_tags yields exactly the keys, and a pop succeeds exactly when
\* its tag is a key.
C24_TagCounts ==
    (harness.stage = 6 /\ pc # "panicked") => CountsAgree

\* The same, for sequences that leave fewer than U16 pushes of a tag
\* outstanding.
TagCountsBelowLimit ==
    (harness.stage = 6 /\ pc # "panicked" /\ \A X \in TagNames : harness.pushes[X] < U16)
        => CountsAgree

-----------------------------------------------------------------------------
\* C28. The count of a tag at the limit of its 16 bits.

\* The calls so far are pushes followed by pops that all succeeded, as the
\* lines pushtag X ... poptag X of an input the parse reads to its end.
AllPopsSucceeded == harness.failed = 0

\* C28: the count of a tag never wraps and is never zero while the tag is a
\* key, no push panics, and a parse that reaches the end of its input
\* succeeds exactly when every push of every tag was undone by a pop.
C28_CountNeverWraps ==
    harness.stage = 6 =>
        /\ pc # "panicked"
        /\ \A X \in DOMAIN state.pushed_tags : state.pushed_tags[X] >= 1
        /\ (pc = "ended" /\ AllPopsSucceeded) =>
               (result[1].ok <=> \A X \in TagNames : Outstanding(X) = 0)

\* The outcomes at the limit: the push that overflows has panicked, or it has
\* left the tag as a key with the count zero.
CountWrapped ==
    /\ harness.stage = 6
    /\ \/ pc = "panicked"
       \/ \E X \in DOMAIN state.pushed_tags : state.pushed_tags[X] = 0

\* Below the limit the same holds.
CountBelowLimit ==
    (harness.stage = 6 /\ \A X \in TagNames : harness.pushes[X] < U16) =>
        /\ pc # "panicked"
        /\ \A X \in DOMAIN state.pushed_tags : state.pushed_tags[X] >= 1
        /\ (pc = "ended" /\ AllPopsSucceeded) =>
               (result[1].ok <=> \A X \in TagNames : Outstanding(X) = 0)

-----------------------------------------------------------------------------
\* C25. The outcomes of parse.

ErrorKinds == {"InvalidInput", "DecimalError"}

\* C25: parse returns a ledger or a ParseError of the kind InvalidInput or
\* DecimalError; it never returns InvalidParserState and never panics.
C25_LedgerOrError ==
    Returned => (result[1].ok \/ result[1].err.kind \in ErrorKinds)

\* The parse of a custom with an argument that is not a string has panicked
\* in get_quoted_str.
CustomPanicked ==
    /\ Returned /\ IsPanic(result[1])
    /\ idx <= Len(pairs) /\ pairs[idx].rule = "custom"

\* The parse of a transaction has panicked.
TransactionPanicked ==
    /\ Returned /\ IsPanic(result[1])
    /\ idx <= Len(pairs) /\ pairs[idx].rule = "transaction"

\* The custom of the parser's unit test, read without debug assertions: the
\* arguments are the texts of the values.
CustomRead ==
    /\ Returned /\ result[1].ok
    /\ input = "2014-07-09 custom \"budget\" \"opt\" TRUE 45.30 USD\n"
    /\ directives[1].kind = "Custom"
    /\ directives[1].name = "budget"
    /\ directives[1].args = <<"\"opt\"", "TRUE", "45.30 USD">>

-----------------------------------------------------------------------------
\* C26. The elements of the file are replayed in source order from a new
\* state, and the outcome of the parse is compared with the outcome of the
\* first element that fails.

\* The errors an element of the file may end the parse with, in the state
\* the elements before it left.
Failures(p, st) ==
    CASE p.rule = "EOI" ->
            {Err(ParseError_invalid_input_with_span(
                     "Unbalanced pushed tag(s): " \o Join(Quoted(keys), ", "), p)) :
                keys \in Perms(get_pushed_tags(st)) \ {<<>>}}
      [] p.rule = "pushtag" -> {extract_tag(p)} \ {r \in {extract_tag(p)} : r.ok}
      [] p.rule = "poptag" ->
            IF ~extract_tag(p).ok THEN {extract_tag(p)}
            ELSE IF pop_tag(st, extract_tag(p).val).res.ok THEN {}
            ELSE {Err(ParseError_invalid_input_with_span(
                          pop_tag(st, extract_tag(p).val).res.err, p))}
      [] OTHER ->
            {r \in {directive(p, st)} : ~r.ok}
            \cup {Panic("assertion failed: pair.as_rule() == Rule::quoted_str") :
                     x \in {p} \cap {q \in {p} : DebugAssertFails(q)}}

\* An element that fails in every build.
MustFail(p, st) ==
    CASE p.rule = "EOI" -> get_pushed_tags(st) # {}
      [] p.rule = "pushtag" -> ~extract_tag(p).ok
      [] p.rule = "poptag" -> ~extract_tag(p).ok \/ ~pop_tag(st, extract_tag(p).val).res.ok
      [] OTHER -> ~directive(p, st).ok

\* The state an element that succeeds leaves.
StepState(p, st) ==
    CASE p.rule = "EOI" -> st
      [] p.rule = "pushtag" -> push_tag(st, extract_tag(p).val)
      [] p.rule = "poptag" -> pop_tag(st, extract_tag(p).val).st
      [] OTHER -> Renamed(st, directive(p, st).val)

\* The elements from the k-th to the one before idx succeed from the state
\* st, and the parse has returned with the outcome of the element at idx.
RECURSIVE InOrder(_, _)
InOrder(k, st) ==
    IF k < idx
    THEN ~MustFail(pairs[k], st) /\ InOrder(k + 1, StepState(pairs[k], st))
    ELSE /\ st = state
         /\ IF result[1].ok
            THEN pairs[k].rule = "EOI" /\ get_pushed_tags(st) = {}
            ELSE result[1] \in Failures(pairs[k], st)

\* The directives among the elements before the k-th.
DirectivesBefore(k) ==
    Cardinality({j \in 1..(k - 1) : pairs[j].rule \notin {"pushtag", "poptag", "EOI"}})

\* C26: parse returns the error of the earliest element that fails and
\* processes nothing after it; the check for tags left pushed is made only
\* at the end of the input, after every element before it succeeded.
C26_FailFast ==
    (Returned /\ idx <= Len(pairs)) =>
        /\ InOrder(1, ParseState_new(state.order))
        /\ Len(directives) = DirectivesBefore(idx)
        /\ (~result[1].ok /\ SubSeq(result[1].err.message, 1, 10) = "Unbalanced")
              => idx = Len(pairs)

\* The pop of an absent tag is reported although a tag is left pushed, and
\* nothing after the pop was read.
C26_Witness ==
    /\ Returned
    /\ input = "pushtag #a\npoptag #b\n2014-01-01 close Foo:Cash\n"
    /\ ~result[1].ok
    /\ result[1].err.message = "Attempting to pop absent tag: 'b'"
    /\ idx = 2
    /\ get_pushed_tags(state) = {"a"}
    /\ directives = <<>>

\* The account with an unknown root is reported although a tag is left
\* pushed.
AccountBeforeUnbalanced ==
    /\ Returned
    /\ input = "pushtag #a\n2014-01-01 close Foo:Cash\n"
    /\ ~result[1].ok
    /\ SubSeq(result[1].err.message, 1, 10) # "Unbalanced"
    /\ idx = 2
    /\ get_pushed_tags(state) = {"a"}

-----------------------------------------------------------------------------
\* C27. The names of the roots and the order in which the table yields them.

\* No two account types have the same name.
Injective(st) ==
    \A t1 \in DOMAIN st.root_names : \A t2 \in DOMAIN st.root_names :
        t1 # t2 => st.root_names[t1] # st.root_names[t2]

\* The state with its table iterated in the order o.
Reordered(st, o) == [st EXCEPT !.order = o]

\* The directive of a pair is the same in whatever order the table is
\* iterated.
SameInAnyOrder(p, st) ==
    \A o \in IterOrders : directive(p, Reordered(st, o)) = directive(p, st)

\* C27: after any options the table of root names is injective, and the
\* account type account() chooses does not depend on the order in which the
\* table is iterated.
C27_RootNamesInjective ==
    (harness.stage = 1 /\ pc = "loop" /\ idx <= Len(pairs)) =>
        /\ Injective(state)
        /\ pairs[idx].rule \notin {"EOI", "pushtag", "poptag"}
              => SameInAnyOrder(pairs[idx], state)

\* Two roots have the same name and the account of the next directive is
\* of one type in one order and of another type in the other.
TypeDependsOnOrder ==
    /\ harness.stage = 1 /\ pc = "loop" /\ idx <= Len(pairs)
    /\ pairs[idx].rule = "close"
    /\ ~Injective(state)
    /\ \E o \in IterOrders :
         /\ directive(pairs[idx], Reordered(state, o)).ok
         /\ directive(pairs[idx], state).ok
         /\ directive(pairs[idx], Reordered(state, o)).val.account.ty
               # directive(pairs[idx], state).val.account.ty

\* While the names of the roots are distinct, the directive does not depend
\* on the order.
DistinctNamesDecide ==
    (harness.stage = 1 /\ pc = "loop" /\ idx <= Len(pairs) /\ Injective(state)
        /\ pairs[idx].rule \notin {"EOI", "pushtag", "poptag"})
        => SameInAnyOrder(pairs[idx], state)

-----------------------------------------------------------------------------
\* C29. The owner of a metadata pair after the ledger is rendered and the
\* text is parsed.

\* The ledger of the source is one transaction with a posting and metadata
\* of its own, and the parse of its rendered text has returned.
OwnMetaReparsed ==
    /\ harness.stage = 2 /\ pc = "done" /\ result # None
    /\ Len(harness.ledgers[1]) = 1
    /\ harness.ledgers[1][1].kind = "Transaction"
    /\ harness.ledgers[1][1].postings # <<>>
    /\ harness.ledgers[1][1].meta # {}

\* C29: the transaction of the rendered text has the metadata of the
\* transaction, and each of its postings the metadata of the posting.
C29_MetadataKeepsOwner ==
    OwnMetaReparsed =>
        LET t == harness.ledgers[1][1]
        IN /\ result[1].ok /\ Len(result[1].val) = 1
           /\ result[1].val[1].kind = "Transaction"
           /\ result[1].val[1].meta = t.meta
           /\ Len(result[1].val[1].postings) = Len(t.postings)
           /\ \A i \in 1..Len(t.postings) :
                result[1].val[1].postings[i].meta = t.postings[i].meta

\* The metadata of the transaction has moved to its last posting.
MetadataMoved ==
    /\ OwnMetaReparsed
    /\ result[1].ok /\ Len(result[1].val) = 1
    /\ result[1].val[1].kind = "Transaction"
    /\ result[1].val[1].meta = {}
    /\ Len(result[1].val[1].postings) = Len(harness.ledgers[1][1].postings)
    /\ result[1].val[1].postings[Len(harness.ledgers[1][1].postings)].meta
          = harness.ledgers[1][1].postings[Len(harness.ledgers[1][1].postings)].meta
            \cup harness.ledgers[1][1].meta

-----------------------------------------------------------------------------
\* C30. Divisors that are zero.

\* C30: the evaluation of every numeric expression of the element the parse
\* stands at gives a decimal or an error value, and an element with a
\* divisor that is zero makes parse return a ParseError with a location.
C30_DivisionByZeroIsError ==
    (harness.stage = 1 /\ pc \in {"loop", "done"} /\ pairs # <<>> /\ idx <= Len(pairs)) =>
        /\ \A e \in NumExprsIn(pairs[idx]) : ~IsPanic(num_expr(e))
        /\ (pc = "done" /\ result # None /\ ZeroDivisors(pairs[idx]) # {}) =>
              /\ ~result[1].ok
              /\ result[1].err.kind \in ErrorKinds
              /\ result[1].err.location # <<0, 0>>

\* The parse of a number of the metadata whose divisor is zero has panicked.
DividedByZero ==
    /\ Returned /\ IsPanic(result[1])
    /\ result[1].err.message = "Division by zero"
    /\ idx <= Len(pairs) /\ pairs[idx].rule = "close"
    /\ ZeroDivisors(pairs[idx]) # {}

\* An expression without such a divisor is evaluated to a decimal.
OtherExpressionsEvaluate ==
    (harness.stage = 1 /\ pc \in {"loop", "done"} /\ pairs # <<>> /\ idx <= Len(pairs)) =>
        \A e \in NumExprsIn(pairs[idx]) \ ZeroDivisors(pairs[idx]) : num_expr(e).ok

====
